---------------------------- MODULE Spec2Model ----------------------------
(***************************************************************************)
(* A model of tallythermal: the extraction of an Invoice from a Tally XML  *)
(* export (src/src/parseTallyXML.js) and the generation of the ESC/POS     *)
(* command stream for it (src/src/OrderInfoControls.jsx, second half:      *)
(* generateEscPosCommands).                                                *)
(*                                                                         *)
(* Strings are sequences of character codes (<<83, 65>> is "SA"), so that  *)
(* trimming, upper-casing, substring search, number parsing and number     *)
(* formatting are computed as the JavaScript does them.  Numbers are       *)
(* [nan, v] with v an integer count of thousandths: the inputs of the      *)
(* model carry at most three fraction digits.                              *)
(***************************************************************************)
EXTENDS Integers, Sequences, FiniteSets, TLC

VARIABLES
    xmlString,    \* the text handed to parseTallyXML, as its parsed content
    parsed,       \* whether parseTallyXML has returned
    result,       \* what parseTallyXML returned
    xmlData,      \* the Invoice handed to generateEscPosCommands
    settings,     \* the settings handed to generateEscPosCommands
    pc,           \* where the call of generateEscPosCommands stands
    commands,     \* its array of command bytes
    logoCommands, \* what printImage resolved with
    output,       \* the Uint8Array it returned
    imageUrl,     \* the URL handed to printImage
    image,        \* what that URL loads: an image, or Broken
    imageWidthPx, \* the targetWidthPx handed to printImage
    imagePc,      \* where the call of printImage stands
    calls,        \* the calls of generateEscPosCommands in flight at once
    files,        \* the files handed to processFiles
    xmlFiles,     \* those of them that pass for XML files
    pendingReads, \* the indexes of xmlFiles whose FileReader has not fired
    processedFiles, \* the files parsed so far, as {fileName, xmlData}
    completed,    \* the count of readers that have fired
    printQueue,   \* the print queue of App: {id, fileName, xmlData, status}
    status,       \* the status line of App
    errors,       \* what console.error has reported
    preview,      \* the Invoice App shows (its xmlData state)
    copyCount,    \* the number of copies
    saved,        \* the item tallyPrintSettings of localStorage
    mounted,      \* App has been mounted and its effects have run
    runs,         \* the calls of handleWebUSBPrint, each with what it captured
    runLimit,     \* how many calls of handleWebUSBPrint are followed
    currentPrintingId, \* <<>> for null, or <<id>>
    transfers,    \* the transferOut calls that resolved, as <<run, item id>>
    generations,  \* the generateEscPosCommands calls that resolved, likewise
    removals      \* the ids whose removal timer of removeFromQueue is set

parseVars == <<xmlString, parsed, result>>
genVars == <<xmlData, settings, pc, commands, logoCommands, output>>
imageVars == <<imageUrl, image, imageWidthPx, imagePc>>
\* The state outside the calls of parseTallyXML and generateEscPosCommands
batchVars == <<files, xmlFiles, pendingReads, processedFiles, completed,
               printQueue, status, errors, preview>>
copyVars == <<copyCount, saved, mounted>>
printVars == <<runs, runLimit, currentPrintingId, transfers, generations, removals>>
\* The state of App
appVars == <<batchVars, copyVars, printVars>>
notGenVars == <<imageVars, calls, appVars>>
vars == <<xmlString, parsed, result, xmlData, settings, pc, commands,
          logoCommands, output, imageUrl, image, imageWidthPx, imagePc,
          calls, files, xmlFiles, pendingReads, processedFiles, completed,
          printQueue, status, errors, preview, copyCount, saved,
          mounted, runs, runLimit, currentPrintingId, transfers, generations,
          removals>>

-----------------------------------------------------------------------------
(* Bounds of the model *)

\* The longest all-inventory and out-going entry list of an input voucher.
MaxItems == 2

-----------------------------------------------------------------------------
(* JavaScript strings *)

Min(a, b) == IF a < b THEN a ELSE b
Max(a, b) == IF a > b THEN a ELSE b

\* White space as String.prototype.trim and parseFloat skip it.
IsSpace(c) == c \in {32, 9, 10, 13}
IsDigit(c) == c >= 48 /\ c <= 57

RECURSIVE TrimStart(_)
TrimStart(s) ==
    IF s # <<>> /\ IsSpace(Head(s)) THEN TrimStart(Tail(s)) ELSE s

RECURSIVE TrimEnd(_)
TrimEnd(s) ==
    IF s # <<>> /\ IsSpace(s[Len(s)]) THEN TrimEnd(SubSeq(s, 1, Len(s) - 1)) ELSE s

\* String.prototype.trim
Trim(s) == TrimEnd(TrimStart(s))

\* String.prototype.toUpperCase, on the letters of the model's alphabet
UpperChar(c) == IF c >= 97 /\ c <= 122 THEN c - 32 ELSE c
toUpperCase(s) == [i \in 1..Len(s) |-> UpperChar(s[i])]

\* String.prototype.includes
includes(s, sub) ==
    \E i \in 1..(Len(s) - Len(sub) + 1) : SubSeq(s, i, i + Len(sub) - 1) = sub

\* String.prototype.slice(a, b) for 0 <= a <= b
slice(s, a, b) == SubSeq(s, Min(a, Len(s)) + 1, Min(b, Len(s)))

\* String.prototype.substring(a) and substring(a, b) for 0 <= a <= b
substringFrom(s, a) == SubSeq(s, Min(a, Len(s)) + 1, Len(s))
substring(s, a, b) == slice(s, a, b)

\* s.split(sep)[0]: the text before the first sep (all of s when there is none)
RECURSIVE splitFirst(_, _)
splitFirst(s, sep) ==
    IF s = <<>> \/ Head(s) = sep THEN <<>>
    ELSE <<Head(s)>> \o splitFirst(Tail(s), sep)

\* Array.prototype.join on a list of strings
RECURSIVE join(_, _)
join(parts, sep) ==
    IF parts = <<>> THEN <<>>
    ELSE IF Len(parts) = 1 THEN parts[1]
    ELSE parts[1] \o sep \o join(Tail(parts), sep)

\* s.repeat(n) for a string s
RECURSIVE repeat(_, _)
repeat(s, n) == IF n <= 0 THEN <<>> ELSE s \o repeat(s, n - 1)

-----------------------------------------------------------------------------
(* JavaScript numbers, in thousandths *)

NaN == [nan |-> TRUE, v |-> 0]
Num(v) == [nan |-> FALSE, v |-> v]
isNaN(n) == n.nan

Abs(v) == IF v < 0 THEN -v ELSE v

\* Math.abs
MathAbs(n) == IF n.nan THEN NaN ELSE Num(Abs(n.v))

\* a + b on numbers
Plus(a, b) == IF a.nan \/ b.nan THEN NaN ELSE Num(a.v + b.v)

\* ToBoolean of a number: 0 and NaN are falsy
Truthy(n) == ~n.nan /\ n.v # 0

RECURSIVE TakeDigits(_)
TakeDigits(s) ==
    IF s = <<>> \/ ~IsDigit(Head(s)) THEN <<>>
    ELSE <<Head(s)>> \o TakeDigits(Tail(s))

RECURSIVE DigitsValue(_)
DigitsValue(s) ==
    IF s = <<>> THEN 0
    ELSE DigitsValue(SubSeq(s, 1, Len(s) - 1)) * 10 + (s[Len(s)] - 48)

\* The first three fraction digits as thousandths ("5" is 500, "004" is 4).
Thousandths(fp) ==
    LET d(i) == IF i <= Len(fp) THEN fp[i] - 48 ELSE 0
    IN  d(1) * 100 + d(2) * 10 + d(3)

\* parseFloat of a string: leading white space, an optional sign, digits, an
\* optional fraction; NaN when no digit is found.  (Exponents and "Infinity"
\* are outside the model's inputs.)
parseFloat(s) ==
    LET t    == TrimStart(s)
        sgn  == t # <<>> /\ Head(t) \in {43, 45}
        neg  == t # <<>> /\ Head(t) = 45
        u    == IF sgn THEN Tail(t) ELSE t
        ip   == TakeDigits(u)
        r    == SubSeq(u, Len(ip) + 1, Len(u))
        fp   == IF r # <<>> /\ Head(r) = 46 THEN TakeDigits(Tail(r)) ELSE <<>>
        mag  == DigitsValue(ip) * 1000 + Thousandths(fp)
    IN  IF ip = <<>> /\ fp = <<>> THEN NaN
        ELSE Num(IF neg THEN -mag ELSE mag)

\* String(n) for a non-negative integer n
RECURSIVE IntToStr(_)
IntToStr(n) ==
    IF n < 10 THEN <<48 + n>> ELSE IntToStr(n \div 10) \o <<48 + (n % 10)>>

\* Number.prototype.toFixed(2): "NaN" for NaN; otherwise the sign when the
\* number is below zero, then the magnitude rounded to hundredths (a tie
\* takes the larger), with exactly two fraction digits.
toFixed2(n) ==
    IF n.nan THEN <<78, 97, 78>>
    ELSE LET cents == (Abs(n.v) + 5) \div 10
         IN  (IF n.v < 0 THEN <<45>> ELSE <<>>)
             \o IntToStr(cents \div 100) \o <<46>>
             \o <<48 + ((cents % 100) \div 10), 48 + (cents % 10)>>

-----------------------------------------------------------------------------
(* The XML text and its document tree *)

(***************************************************************************)
(* An input of parseTallyXML is [isString, entity4, wellFormed, hasVoucher,*)
(* company, voucher]: whether the argument is a string at all, whether the *)
(* text holds the character reference &#4; (not legal XML), whether the    *)
(* rest of the text is well-formed, whether a VOUCHER element exists, the  *)
(* text of REQUESTDESC > STATICVARIABLES > SVCURRENTCOMPANY, and the       *)
(* VOUCHER element: a record from tag names to the raw text of the first   *)
(* descendant with that tag (<<>> when there is none), and to the list of  *)
(* elements for the tags read with querySelectorAll (X_LIST for X.LIST).   *)
(***************************************************************************)

\* xmlString.replace(/&#4;/g, '')
replaceEntity4(xml) == [xml EXCEPT !.entity4 = FALSE]

\* DOMParser.parseFromString: the document holds a parsererror element when
\* the text is not well-formed XML.
hasParserError(xml) == xml.entity4 \/ ~xml.wellFormed

\* get(tag, node): node.querySelector(tag)?.textContent?.trim() || ''
get(tag, node) == Trim(node[tag])

\* getAll(tag, node): Array.from(node.querySelectorAll(tag))
getAll(tag, node) == node[tag]

\* Local helper function for date formatting
formatDate(d) ==
    IF d # <<>>
    THEN slice(d, 6, 8) \o <<45>> \o slice(d, 4, 6) \o <<45>> \o slice(d, 0, 4)
    ELSE <<>>

\* Helper to parse quantity (e.g., "10 NOS" -> "10")
parseQty(qtyStr) ==
    LET qty == splitFirst(Trim(qtyStr), 32)
    IN  IF isNaN(parseFloat(qty)) THEN <<48>> ELSE qty

\* x || 0 for a string x, then parseFloat: the empty string gives 0
parseFloatOr0(s) == IF s = <<>> THEN Num(0) ELSE parseFloat(s)

\* One element of an inventory entry list as an item (before sNo is assigned)
parseItem(el) ==
    [name   |-> get("STOCKITEMNAME", el),
     qty    |-> parseQty(get("ACTUALQTY", el)),
     rate   |-> toFixed2(parseFloatOr0(splitFirst(get("RATE", el), 47))),
     amount |-> toFixed2(MathAbs(parseFloatOr0(get("AMOUNT", el))))]

\* Helper to parse item details from a specific inventory entry list
parseItemsFromList(listElements) ==
    [k \in 1..Len(listElements) |-> parseItem(listElements[k])]

\* selectItems with a fall-back to the all-inventory list added to the
\* STOCK JOURNAL branch
selectItems_fallbackInJournal(voucherTypeName, objView, voucher) ==
    LET all == parseItemsFromList(getAll("ALLINVENTORYENTRIES_LIST", voucher))
        in  == parseItemsFromList(getAll("INVENTORYENTRIESIN_LIST", voucher))
        out == parseItemsFromList(getAll("INVENTORYENTRIESOUT_LIST", voucher))
    IN  IF includes(voucherTypeName, <<83, 84, 79, 67, 75, 32, 74, 79, 85, 82, 78, 65, 76>>)
           \/ includes(objView, <<67, 79, 78, 83, 85, 77, 80, 84, 73, 79, 78, 32, 86, 79, 85, 67, 72, 69, 82, 32, 86, 73, 69, 87>>)
        THEN (IF Len(out) = 0 THEN all ELSE out)
        ELSE IF includes(voucherTypeName, <<83, 65, 76, 69, 83>>)
        THEN (IF Len(all) = 0 THEN out ELSE all)
        ELSE IF includes(voucherTypeName, <<77, 65, 84, 69, 82, 73, 65, 76, 32, 79, 85, 84>>)
                \/ includes(voucherTypeName, <<68, 69, 76, 73, 86, 69, 82, 89>>)
        THEN (IF Len(out) = 0 THEN all ELSE out)
        ELSE all \o in \o out

\* selectItems with the fall-back of the SALES branch left out
selectItems_noSalesFallback(voucherTypeName, objView, voucher) ==
    LET all == parseItemsFromList(getAll("ALLINVENTORYENTRIES_LIST", voucher))
        in  == parseItemsFromList(getAll("INVENTORYENTRIESIN_LIST", voucher))
        out == parseItemsFromList(getAll("INVENTORYENTRIESOUT_LIST", voucher))
    IN  IF includes(voucherTypeName, <<83, 84, 79, 67, 75, 32, 74, 79, 85, 82, 78, 65, 76>>)
           \/ includes(objView, <<67, 79, 78, 83, 85, 77, 80, 84, 73, 79, 78, 32, 86, 79, 85, 67, 72, 69, 82, 32, 86, 73, 69, 87>>)
        THEN out
        ELSE IF includes(voucherTypeName, <<83, 65, 76, 69, 83>>)
        THEN all
        ELSE IF includes(voucherTypeName, <<77, 65, 84, 69, 82, 73, 65, 76, 32, 79, 85, 84>>)
                \/ includes(voucherTypeName, <<68, 69, 76, 73, 86, 69, 82, 89>>)
        THEN (IF Len(out) = 0 THEN all ELSE out)
        ELSE all \o in \o out

\* Conditional Item Parsing Logic
selectItems(voucherTypeName, objView, voucher) ==
    LET all == parseItemsFromList(getAll("ALLINVENTORYENTRIES_LIST", voucher))
        in  == parseItemsFromList(getAll("INVENTORYENTRIESIN_LIST", voucher))
        out == parseItemsFromList(getAll("INVENTORYENTRIESOUT_LIST", voucher))
    IN  IF includes(voucherTypeName, <<83, 84, 79, 67, 75, 32, 74, 79, 85, 82, 78, 65, 76>>)
           \/ includes(objView, <<67, 79, 78, 83, 85, 77, 80, 84, 73, 79, 78, 32, 86, 79, 85, 67, 72, 69, 82, 32, 86, 73, 69, 87>>)
        THEN out
        ELSE IF includes(voucherTypeName, <<83, 65, 76, 69, 83, 32, 79, 82, 68, 69, 82>>)
                \/ includes(voucherTypeName, <<83, 65, 76, 69, 83>>)
        THEN (IF Len(all) = 0 THEN out ELSE all)
        ELSE IF includes(voucherTypeName, <<77, 65, 84, 69, 82, 73, 65, 76, 32, 79, 85, 84>>)
                \/ includes(voucherTypeName, <<68, 69, 76, 73, 86, 69, 82, 89>>)
        THEN (IF Len(out) = 0 THEN all ELSE out)
        ELSE all \o in \o out

\* assignSNo numbering from 0
assignSNo_fromZero(items) ==
    [k \in 1..Len(items) |->
        [name |-> items[k].name, qty |-> items[k].qty, rate |-> items[k].rate,
         amount |-> items[k].amount, sNo |-> k - 1]]

\* Assign sNo after the final items list is determined
assignSNo(items) ==
    [k \in 1..Len(items) |->
        [name |-> items[k].name, qty |-> items[k].qty, rate |-> items[k].rate,
         amount |-> items[k].amount, sNo |-> k]]

\* items.reduce((sum, i) => sum + parseFloat(i.amount), 0)
RECURSIVE sumAmounts(_)
sumAmounts(items) ==
    IF items = <<>> THEN Num(0)
    ELSE Plus(sumAmounts(SubSeq(items, 1, Len(items) - 1)),
              parseFloat(items[Len(items)].amount))

\* Array.prototype.find over a list: the least index in S, 0 when S is empty
firstIndex(S) == IF S = {} THEN 0 ELSE CHOOSE i \in S : \A j \in S : i <= j

\* findAmount(ledgerName): the AMOUNT of the first ledger entry of that name
findAmount(ledgerEntries, ledgerName) ==
    LET entry == firstIndex({i \in 1..Len(ledgerEntries) :
                                get("LEDGERNAME", ledgerEntries[i]) = ledgerName})
    IN  IF entry = 0 THEN Num(0)
        ELSE parseFloatOr0(ledgerEntries[entry]["AMOUNT"])

\* totalOf with Math.abs left out
totalOf_noAbs(ledgerEntries, subtotal) ==
    LET partyAmountEntry ==
            firstIndex({i \in 1..Len(ledgerEntries) :
                           get("ISPARTYLEDGER", ledgerEntries[i]) = <<89, 101, 115>>})
    IN  IF partyAmountEntry # 0
        THEN toFixed2(parseFloatOr0(get("AMOUNT", ledgerEntries[partyAmountEntry])))
        ELSE toFixed2(subtotal)

\* The party ledger entry's amount, else the subtotal
totalOf(ledgerEntries, subtotal) ==
    LET partyAmountEntry ==
            firstIndex({i \in 1..Len(ledgerEntries) :
                           get("ISPARTYLEDGER", ledgerEntries[i]) = <<89, 101, 115>>})
    IN  IF partyAmountEntry # 0
        THEN toFixed2(MathAbs(parseFloatOr0(
                        get("AMOUNT", ledgerEntries[partyAmountEntry]))))
        ELSE toFixed2(subtotal)

\* headingOf with the SALES check moved before the MATERIAL OUT / DELIVERY one
headingOf_salesFirst(voucherTypeName) ==
    IF includes(voucherTypeName, <<83, 65, 76, 69, 83, 32, 79, 82, 68, 69, 82>>) THEN <<83, 65, 76, 69, 83, 32, 79, 82, 68, 69, 82>>
    ELSE IF includes(voucherTypeName, <<83, 65, 76, 69, 83>>) THEN <<83, 65, 76, 69, 83, 32, 73, 78, 86, 79, 73, 67, 69>>
    ELSE IF includes(voucherTypeName, <<77, 65, 84, 69, 82, 73, 65, 76, 32, 79, 85, 84>>)
            \/ includes(voucherTypeName, <<68, 69, 76, 73, 86, 69, 82, 89>>) THEN <<77, 65, 84, 69, 82, 73, 65, 76, 32, 67, 72, 65, 76, 76, 65, 78>>
    ELSE IF includes(voucherTypeName, <<83, 84, 79, 67, 75, 32, 74, 79, 85, 82, 78, 65, 76>>) THEN <<83, 84, 79, 67, 75, 32, 74, 79, 85, 82, 78, 65, 76>>
    ELSE <<68, 79, 67, 85, 77, 69, 78, 84>>

\* Determine heading based on voucher type
headingOf(voucherTypeName) ==
    IF includes(voucherTypeName, <<83, 65, 76, 69, 83, 32, 79, 82, 68, 69, 82>>) THEN <<83, 65, 76, 69, 83, 32, 79, 82, 68, 69, 82>>
    ELSE IF includes(voucherTypeName, <<77, 65, 84, 69, 82, 73, 65, 76, 32, 79, 85, 84>>)
            \/ includes(voucherTypeName, <<68, 69, 76, 73, 86, 69, 82, 89>>) THEN <<77, 65, 84, 69, 82, 73, 65, 76, 32, 67, 72, 65, 76, 76, 65, 78>>
    ELSE IF includes(voucherTypeName, <<83, 65, 76, 69, 83>>) THEN <<83, 65, 76, 69, 83, 32, 73, 78, 86, 79, 73, 67, 69>>
    ELSE IF includes(voucherTypeName, <<83, 84, 79, 67, 75, 32, 74, 79, 85, 82, 78, 65, 76>>) THEN <<83, 84, 79, 67, 75, 32, 74, 79, 85, 82, 78, 65, 76>>
    ELSE <<68, 79, 67, 85, 77, 69, 78, 84>>

\* The failure value of parseTallyXML
Null == [null |-> TRUE]

\* The body of the try block once the VOUCHER element is found
extract(xmlDoc) ==
    LET voucher == xmlDoc.voucher
        companyName == Trim(xmlDoc.company)
        address == join([k \in 1..Len(getAll("BASICBUYERADDRESS", voucher)) |->
                            Trim(getAll("BASICBUYERADDRESS", voucher)[k])], <<10>>)
        voucherTypeName == toUpperCase(get("VOUCHERTYPENAME", voucher))
        objView == toUpperCase(get("OBJVIEW", voucher))
        items == assignSNo(selectItems(voucherTypeName, objView, voucher))
        subtotal == sumAmounts(items)
        ledgerEntries == getAll("LEDGERENTRIES_LIST", voucher)
        igst == findAmount(ledgerEntries, <<73, 71, 83, 84>>)
        cgst == findAmount(ledgerEntries, <<67, 71, 83, 84>>)
        sgst == IF Truthy(findAmount(ledgerEntries, <<83, 71, 83, 84>>))
                THEN findAmount(ledgerEntries, <<83, 71, 83, 84>>)
                ELSE findAmount(ledgerEntries, <<83, 71, 83, 84, 47, 85, 84, 71, 83, 84>>)
    IN  [heading   |-> headingOf(voucherTypeName),
         company   |-> [name |-> companyName, gstin |-> get("CMPGSTIN", voucher)],
         order     |-> [number |-> get("VOUCHERNUMBER", voucher),
                        date   |-> formatDate(get("DATE", voucher)),
                        user   |-> get("ENTEREDBY", voucher)],
         party     |-> [name    |-> get("PARTYNAME", voucher),
                        address |-> address,
                        gstin   |-> get("PARTYGSTIN", voucher)],
         items     |-> items,
         totals    |-> [subtotal |-> toFixed2(subtotal),
                        igst     |-> toFixed2(igst),
                        cgst     |-> toFixed2(cgst),
                        sgst     |-> toFixed2(sgst),
                        total    |-> totalOf(ledgerEntries, subtotal)],
         narration |-> get("NARRATION", voucher)]

\* Whether the try block throws: the argument has no replace method, the
\* parser reports an error, or the VOUCHER element is missing.
throws(xml) ==
    \/ ~xml.isString
    \/ hasParserError(replaceEntity4(xml))
    \/ ~xml.hasVoucher

\* parseTallyXML with a catch block that returns what was built so far
parseTallyXML_partial(xml) ==
    IF throws(xml) THEN [items |-> <<>>, narration |-> <<>>] ELSE extract(xml)

\* export default function parseTallyXML(xmlString)
parseTallyXML(xml) == IF throws(xml) THEN Null ELSE extract(xml)

-----------------------------------------------------------------------------
(* The raster image: printImage *)

ESC == 27
GS == 29
LF == 10

\* The logo is drawn at this width by generateEscPosCommands
LogoWidthPx == 384

(***************************************************************************)
(* An image is [width, height, pattern]: its natural size, and the pixels  *)
(* of the canvas after drawImage has scaled it, given by a pattern (the    *)
(* rows of "escape" pack to the bytes 1B 40 repeated; the two colours of   *)
(* "grey" have a luminance of 128 in exact arithmetic).                    *)
(***************************************************************************)

\* The RGB value of canvas pixel (x, y)
pixelAt(img, x, y) ==
    CASE img.pattern = "black"   -> <<0, 0, 0>>
      [] img.pattern = "white"   -> <<255, 255, 255>>
      [] img.pattern = "stripes" -> IF x % 2 = 0 THEN <<20, 30, 200>>
                                    ELSE <<250, 240, 100>>
      [] img.pattern = "escape"  -> IF x % 16 \in {3, 4, 6, 7, 9} THEN <<0, 0, 0>>
                                    ELSE <<255, 255, 255>>
      [] img.pattern = "grey"    -> IF (x + y) % 2 = 0 THEN <<128, 128, 128>>
                                    ELSE <<1, 189, 147>>
      [] OTHER                   -> IF (x + y) % 3 = 0 THEN <<100, 100, 100>>
                                    ELSE <<200, 200, 200>>

\* The colours for which 0.299 * r + 0.587 * g + 0.114 * b is 128 in exact
\* arithmetic and 127.99999999999999 as the doubles of the code compute it,
\* the products summed from left to right (mid-grey 128 is one of them); for
\* every other colour the doubles and the exact value fall on the same side
\* of 128.
RoundsBelow128 ==
    {<<8, 200, 72>>, <<12, 190, 113>>, <<19, 201, 38>>, <<23, 191, 79>>,
     <<24, 160, 236>>, <<34, 192, 45>>, <<38, 182, 86>>, <<42, 172, 127>>,
     <<49, 183, 52>>, <<53, 173, 93>>, <<57, 163, 134>>, <<64, 174, 59>>,
     <<72, 154, 141>>, <<75, 175, 25>>, <<79, 165, 66>>, <<87, 145, 148>>,
     <<90, 166, 32>>, <<94, 156, 73>>, <<98, 146, 114>>, <<102, 136, 155>>,
     <<105, 157, 39>>, <<113, 137, 121>>, <<116, 158, 5>>, <<117, 127, 162>>,
     <<120, 148, 46>>, <<128, 128, 128>>, <<131, 149, 12>>,
     <<132, 118, 169>>, <<135, 139, 53>>, <<143, 119, 135>>,
     <<146, 140, 19>>, <<154, 120, 101>>, <<158, 110, 142>>,
     <<161, 131, 26>>, <<169, 111, 108>>, <<176, 122, 33>>, <<177, 91, 190>>,
     <<184, 102, 115>>, <<195, 103, 81>>, <<199, 93, 122>>, <<202, 114, 6>>,
     <<210, 94, 88>>, <<225, 85, 95>>, <<240, 76, 102>>, <<251, 77, 68>>,
     <<255, 67, 109>>}

\* luminance < 128, with 0.299 r + 0.587 g + 0.114 b in thousandths
isInk(rgb) ==
    \/ 299 * rgb[1] + 587 * rgb[2] + 114 * rgb[3] < 128000
    \/ rgb \in RoundsBelow128

\* Math.round(targetWidthPx / (img.width / img.height))
displayHeightOf(img, targetWidthPx) ==
    (2 * targetWidthPx * img.height + img.width) \div (2 * img.width)

\* Math.ceil(displayWidth / 8)
bytesPerRowOf(displayWidth) == (displayWidth + 7) \div 8

\* The byte at position bytePosition of row y: bit 7 - (x % 8) is set for
\* each ink pixel x of the row, the bits past the width stay 0.
bitmapByte(img, displayWidth, y, bytePosition) ==
    LET bit(k) == LET x == bytePosition * 8 + k
                  IN  IF x < displayWidth /\ isInk(pixelAt(img, x, y))
                      THEN 1 ELSE 0
    IN  bit(0) * 128 + bit(1) * 64 + bit(2) * 32 + bit(3) * 16
        + bit(4) * 8 + bit(5) * 4 + bit(6) * 2 + bit(7)

\* bitmapData: row-major, bytesPerRow * displayHeight bytes
bitmapDataOf(img, displayWidth, displayHeight) ==
    LET bytesPerRow == bytesPerRowOf(displayWidth)
    IN  [i \in 1..(bytesPerRow * displayHeight) |->
            bitmapByte(img, displayWidth, (i - 1) \div bytesPerRow,
                       (i - 1) % bytesPerRow)]

\* img.onload: GS v 0, m = 0, xL xH, yL yH, then the bitmap
imageCommands(img, targetWidthPx) ==
    LET displayWidth == targetWidthPx
        displayHeight == displayHeightOf(img, targetWidthPx)
        bytesPerRow == bytesPerRowOf(displayWidth)
    IN  <<GS, 118, 48, 0,
          bytesPerRow % 256, (bytesPerRow \div 256) % 256,
          displayHeight % 256, (displayHeight \div 256) % 256>>
        \o bitmapDataOf(img, displayWidth, displayHeight)

-----------------------------------------------------------------------------
(* The command stream: generateEscPosCommands *)

\* UTF-8 of one character (TextEncoder), for code points below 65536
utf8(c) ==
    IF c < 128 THEN <<c>>
    ELSE IF c < 2048 THEN <<192 + (c \div 64), 128 + (c % 64)>>
    ELSE <<224 + (c \div 4096), 128 + ((c \div 64) % 64), 128 + (c % 64)>>

\* The rupee sign
Rupee == 8377

\* TextEncoder.encode of a text as it is
RECURSIVE encodeVerbatim(_)
encodeVerbatim(text) ==
    IF text = <<>> THEN <<>> ELSE utf8(Head(text)) \o encodeVerbatim(Tail(text))

\* encodeText that replaces the first rupee sign only
RECURSIVE encodeText_firstOnly(_)
encodeText_firstOnly(text) ==
    IF text = <<>> THEN <<>>
    ELSE IF Head(text) = Rupee THEN <<82, 115, 46, 32>> \o encodeVerbatim(Tail(text))
    ELSE utf8(Head(text)) \o encodeText_firstOnly(Tail(text))

\* encodeText: every rupee sign becomes "Rs. ", then the text is encoded
RECURSIVE encodeText(_)
encodeText(text) ==
    IF text = <<>> THEN <<>>
    ELSE (IF Head(text) = Rupee THEN <<82, 115, 46, 32>> ELSE utf8(Head(text)))
         \o encodeText(Tail(text))

(***************************************************************************)
(* Each helper and each section below is the list of bytes it pushes onto  *)
(* the commands array; the array is their concatenation in program order.  *)
(***************************************************************************)

\* setAlignment: ESC a n
setAlignment(alignment) ==
    <<ESC, 97, IF alignment = "right" THEN 2
               ELSE IF alignment = "center" THEN 1 ELSE 0>>

\* setBold: ESC E n
setBold(enable) == <<ESC, 69, IF enable THEN 1 ELSE 0>>

\* setDoubleSize: ESC ! n
setDoubleSize(enable) == <<ESC, 33, IF enable THEN 48 ELSE 0>>

\* printLine: the encoded text and a line feed
printLine(text) == encodeText(text) \o <<LF>>

\* printLine for each text of a list, in order
RECURSIVE printLines(_)
printLines(lines) ==
    IF lines = <<>> THEN <<>>
    ELSE printLine(Head(lines)) \o printLines(Tail(lines))

\* printSeparator
printSeparator(char, width) == printLine(repeat(char, width))

TOTAL_RECEIPT_WIDTH == 42
DOUBLE_SIZE_CHARS_PER_LINE == 14
SNO_COL_WIDTH == 3
ITEM_NAME_COL_WIDTH == TOTAL_RECEIPT_WIDTH - SNO_COL_WIDTH - 1
QTY_RATE_AMOUNT_LINE_INDENT == SNO_COL_WIDTH + 1
QTY_HEADER_WIDTH == 5
RATE_HEADER_WIDTH == 8
AMOUNT_HEADER_WIDTH == 8

\* settings.lineSeparator || '-'
separatorOf(s) == IF s.lineSeparator # <<>> THEN s.lineSeparator ELSE <<45>>

\* String.prototype.padEnd and padStart with spaces
padEnd(s, n) == s \o repeat(<<32>>, n - Len(s))
padStart(s, n) == repeat(<<32>>, n - Len(s)) \o s

\* String.prototype.lastIndexOf(' '): the 0-based index of the last space, -1
\* when there is none
lastIndexOfSpace(s) ==
    LET at == {i \in 1..Len(s) : s[i] = 32}
    IN  IF at = {} THEN -1 ELSE (CHOOSE i \in at : \A j \in at : j <= i) - 1

\* s.split('\n')
RECURSIVE splitLines(_)
splitLines(s) ==
    LET first == splitFirst(s, 10)
    IN  IF Len(first) = Len(s) THEN <<s>>
        ELSE <<first>> \o splitLines(substringFrom(s, Len(first) + 1))

\* The lines of the company name: the while loop of section 1
RECURSIVE companyNameLines(_)
companyNameLines(remainingCompanyName) ==
    IF Len(remainingCompanyName) = 0 THEN <<>>
    ELSE LET line == substring(remainingCompanyName, 0, DOUBLE_SIZE_CHARS_PER_LINE)
             lastSpaceIndex == lastIndexOfSpace(line)
         IN  IF lastSpaceIndex > -1 /\ lastSpaceIndex > 0
                /\ Len(line) = DOUBLE_SIZE_CHARS_PER_LINE
             THEN <<Trim(substring(line, 0, lastSpaceIndex))>>
                  \o companyNameLines(
                        substringFrom(remainingCompanyName, lastSpaceIndex + 1))
             ELSE <<Trim(line)>>
                  \o companyNameLines(
                        substringFrom(remainingCompanyName, DOUBLE_SIZE_CHARS_PER_LINE))

\* What one iteration of the company-name loop leaves of the name
companyNameRest(remainingCompanyName) ==
    LET line == substring(remainingCompanyName, 0, DOUBLE_SIZE_CHARS_PER_LINE)
        lastSpaceIndex == lastIndexOfSpace(line)
    IN  IF lastSpaceIndex > -1 /\ lastSpaceIndex > 0
           /\ Len(line) = DOUBLE_SIZE_CHARS_PER_LINE
        THEN substringFrom(remainingCompanyName, lastSpaceIndex + 1)
        ELSE substringFrom(remainingCompanyName, DOUBLE_SIZE_CHARS_PER_LINE)

\* What one iteration of a loop that cuts chunks leaves of the text
hardWrapRest(text, width) == substringFrom(text, width)

\* A loop that prints the first chunk and drops the rest of the text
hardWrap_firstChunk(text, width) ==
    IF Len(text) = 0 THEN <<>> ELSE <<substring(text, 0, width)>>

\* The chunks of at most width characters of a text: the while loops of the
\* item name, the narration and the terms
RECURSIVE hardWrap(_, _)
hardWrap(text, width) ==
    IF Len(text) = 0 THEN <<>>
    ELSE <<substring(text, 0, width)>> \o hardWrap(substringFrom(text, width), width)

\* 0. Print Logo, up to the await: the logo is centred
logoPrefix == setAlignment("center")

\* 0. Print Logo, after the await: the image commands and a line break
logoSuffix(logo) == logo \o printLine(<<>>)

\* 1. Company Header
companyHeader(data, s) ==
    setAlignment(s.headerAlignment) \o setBold(TRUE) \o setDoubleSize(TRUE)
    \o (IF data.company.name # <<>>
        THEN printLines(companyNameLines(data.company.name)) ELSE <<>>)
    \o setDoubleSize(FALSE) \o setBold(FALSE)
    \o (IF data.company.address # <<>>
        THEN printLines(splitLines(data.company.address)) ELSE <<>>)
    \o (IF data.company.phone # <<>> THEN printLine(data.company.phone) ELSE <<>>)
    \o (IF data.company.gstin # <<>>
        THEN printLine(<<71, 83, 84, 73, 78, 58, 32>> \o data.company.gstin) ELSE <<>>)
    \o printLine(<<>>)

\* 2. Invoice Type (Heading from parseTallyXML)
invoiceType(data, s) ==
    printSeparator(separatorOf(s), TOTAL_RECEIPT_WIDTH)
    \o setAlignment("center") \o setBold(TRUE)
    \o (IF data.heading # <<>> THEN printLine(data.heading) ELSE <<>>)
    \o setBold(FALSE)
    \o printSeparator(separatorOf(s), TOTAL_RECEIPT_WIDTH)
    \o printLine(<<>>)

\* One row of the order details with the label under valueBold too
orderRow_oneFlag(label, value, s) ==
    setBold(s.sectionStyles.orderInfo.valueBold) \o encodeText(label)
    \o setBold(s.sectionStyles.orderInfo.valueBold) \o printLine(value)

\* One row of the order details: the label under labelBold, the value under
\* valueBold
orderRow(label, value, s) ==
    setBold(s.sectionStyles.orderInfo.labelBold) \o encodeText(label)
    \o setBold(s.sectionStyles.orderInfo.valueBold) \o printLine(value)

\* 3. Order Details
orderDetails(data, s) ==
    setAlignment("left")
    \o orderRow(<<86, 111, 117, 99, 104, 101, 114, 32, 78, 111, 58, 32>>, data.order.number, s)
    \o orderRow(<<68, 97, 116, 101, 58, 32>>, data.order.date, s)
    \o orderRow(<<69, 110, 116, 101, 114, 101, 100, 32, 66, 121, 58, 32>>, data.order.user, s)
    \o setBold(FALSE)
    \o printSeparator(separatorOf(s), TOTAL_RECEIPT_WIDTH)
    \o printLine(<<>>)

\* 4. Party Details
partyDetails(data) ==
    IF data.party.name # <<>>
    THEN setBold(TRUE) \o printLine(<<80, 65, 82, 84, 89, 32, 68, 69, 84, 65, 73, 76, 83, 58>>) \o setBold(FALSE)
         \o printLine(data.party.name)
         \o (IF data.party.address # <<>>
             THEN printLines(splitLines(data.party.address)) ELSE <<>>)
         \o (IF data.party.gstin # <<>>
             THEN printLine(<<71, 83, 84, 73, 78, 58, 32>> \o data.party.gstin) ELSE <<>>)
         \o printLine(<<>>)
    ELSE <<>>

\* 5. Items Table Header
itemsHeader(s) ==
    printSeparator(separatorOf(s), TOTAL_RECEIPT_WIDTH)
    \o setAlignment("left") \o setBold(TRUE)
    \o printLine(padEnd(<<83, 46, 78, 111>>, SNO_COL_WIDTH) \o <<32>>
                 \o padEnd(<<73, 116, 101, 109, 32, 78, 97, 109, 101>>, ITEM_NAME_COL_WIDTH))
    \o printLine(repeat(<<32>>, QTY_RATE_AMOUNT_LINE_INDENT)
                 \o padEnd(<<81, 116, 121>>, QTY_HEADER_WIDTH) \o <<32>>
                 \o padEnd(<<82, 97, 116, 101>>, RATE_HEADER_WIDTH) \o <<32>>
                 \o padStart(<<65, 109, 111, 117, 110, 116>>, AMOUNT_HEADER_WIDTH))
    \o setBold(FALSE)
    \o printSeparator(separatorOf(s), TOTAL_RECEIPT_WIDTH)

\* The block of one item with the rest of the name wrapped to the full width
itemBlock_fullWidth(item) ==
    LET sNo == padEnd(IntToStr(item.sNo), SNO_COL_WIDTH)
        itemName == item.name
        qty == toFixed2(parseFloat(item.qty))
        rate == toFixed2(parseFloat(item.rate))
        amount == toFixed2(parseFloat(item.amount))
        indentForWrappedName == repeat(<<32>>, SNO_COL_WIDTH + 1)
        rest == hardWrap(substringFrom(itemName, ITEM_NAME_COL_WIDTH),
                         TOTAL_RECEIPT_WIDTH)
        qtyRateAmountText == <<81, 116, 121, 58, 32>> \o qty \o <<32, 64, 32, 82, 115, 46, 32>> \o rate
                             \o <<32, 61, 32, 82, 115, 46, 32>> \o amount
        paddingForRightAlign == Max(0, TOTAL_RECEIPT_WIDTH - Len(qtyRateAmountText))
    IN  setBold(TRUE)
        \o printLine(sNo \o <<32>> \o substring(itemName, 0, ITEM_NAME_COL_WIDTH))
        \o setBold(FALSE)
        \o (IF Len(itemName) > ITEM_NAME_COL_WIDTH
            THEN printLines([k \in 1..Len(rest) |-> indentForWrappedName \o rest[k]])
            ELSE <<>>)
        \o printLine(repeat(<<32>>, paddingForRightAlign) \o qtyRateAmountText)
        \o printLine(<<>>)

\* The block of one item with the quantity line cut at the full width
itemBlock_truncated(item) ==
    LET sNo == padEnd(IntToStr(item.sNo), SNO_COL_WIDTH)
        itemName == item.name
        qty == toFixed2(parseFloat(item.qty))
        rate == toFixed2(parseFloat(item.rate))
        amount == toFixed2(parseFloat(item.amount))
        indentForWrappedName == repeat(<<32>>, SNO_COL_WIDTH + 1)
        rest == hardWrap(substringFrom(itemName, ITEM_NAME_COL_WIDTH),
                         TOTAL_RECEIPT_WIDTH - Len(indentForWrappedName))
        qtyRateAmountText == <<81, 116, 121, 58, 32>> \o qty \o <<32, 64, 32, 82, 115, 46, 32>> \o rate
                             \o <<32, 61, 32, 82, 115, 46, 32>> \o amount
        paddingForRightAlign == Max(0, TOTAL_RECEIPT_WIDTH - Len(qtyRateAmountText))
    IN  setBold(TRUE)
        \o printLine(sNo \o <<32>> \o substring(itemName, 0, ITEM_NAME_COL_WIDTH))
        \o setBold(FALSE)
        \o (IF Len(itemName) > ITEM_NAME_COL_WIDTH
            THEN printLines([k \in 1..Len(rest) |-> indentForWrappedName \o rest[k]])
            ELSE <<>>)
        \o printLine(substring(repeat(<<32>>, paddingForRightAlign) \o qtyRateAmountText,
                              0, TOTAL_RECEIPT_WIDTH))
        \o printLine(<<>>)

\* The block of one item: the body of xmlData.items.forEach
itemBlock(item) ==
    LET sNo == padEnd(IntToStr(item.sNo), SNO_COL_WIDTH)
        itemName == item.name
        qty == toFixed2(parseFloat(item.qty))
        rate == toFixed2(parseFloat(item.rate))
        amount == toFixed2(parseFloat(item.amount))
        indentForWrappedName == repeat(<<32>>, SNO_COL_WIDTH + 1)
        rest == hardWrap(substringFrom(itemName, ITEM_NAME_COL_WIDTH),
                         TOTAL_RECEIPT_WIDTH - Len(indentForWrappedName))
        qtyRateAmountText == <<81, 116, 121, 58, 32>> \o qty \o <<32, 64, 32, 82, 115, 46, 32>> \o rate
                             \o <<32, 61, 32, 82, 115, 46, 32>> \o amount
        paddingForRightAlign == Max(0, TOTAL_RECEIPT_WIDTH - Len(qtyRateAmountText))
    IN  setBold(TRUE)
        \o printLine(sNo \o <<32>> \o substring(itemName, 0, ITEM_NAME_COL_WIDTH))
        \o setBold(FALSE)
        \o (IF Len(itemName) > ITEM_NAME_COL_WIDTH
            THEN printLines([k \in 1..Len(rest) |-> indentForWrappedName \o rest[k]])
            ELSE <<>>)
        \o printLine(repeat(<<32>>, paddingForRightAlign) \o qtyRateAmountText)
        \o printLine(<<>>)

RECURSIVE itemBlocks(_)
itemBlocks(items) ==
    IF items = <<>> THEN <<>>
    ELSE itemBlock(Head(items)) \o itemBlocks(Tail(items))

\* 6. Items List
itemsList(data) ==
    (IF Len(data.items) > 0 THEN itemBlocks(data.items)
     ELSE printLine(<<78, 111, 32, 105, 116, 101, 109, 115, 32, 102, 111, 117, 110, 100, 46>>))
    \o printLine(<<>>)

\* isPositive with >= in the place of >
isPositive_orZero(value) == LET n == parseFloat(value) IN ~n.nan /\ n.v >= 0

\* parseFloat(value) > 0
isPositive(value) == LET n == parseFloat(value) IN ~n.nan /\ n.v > 0

\* x || '0.00'
orZero(x) == IF x # <<>> THEN x ELSE <<48, 46, 48, 48>>

\* 7. Totals
totalsBlock(data, s) ==
    printSeparator(separatorOf(s), TOTAL_RECEIPT_WIDTH)
    \o setAlignment("right")
    \o printLine(<<83, 117, 98, 32, 84, 111, 116, 97, 108, 58, 32>> \o orZero(data.totals.subtotal))
    \o (IF isPositive(data.totals.cgst)
        THEN printLine(<<67, 71, 83, 84, 58, 32>> \o data.totals.cgst) ELSE <<>>)
    \o (IF isPositive(data.totals.sgst)
        THEN printLine(<<83, 71, 83, 84, 58, 32>> \o data.totals.sgst) ELSE <<>>)
    \o (IF isPositive(data.totals.igst)
        THEN printLine(<<73, 71, 83, 84, 58, 32>> \o data.totals.igst) ELSE <<>>)
    \o setBold(TRUE)
    \o printLine(<<84, 79, 84, 65, 76, 58, 32, 82, 115, 46, 32>> \o orZero(data.totals.total))
    \o setBold(FALSE)
    \o printLine(<<>>)

\* 8. Amount in Words
amountInWordsBlock(data) ==
    IF data.amountInWords # <<>>
    THEN setAlignment("left") \o printLine(<<65, 109, 111, 117, 110, 116, 32, 105, 110, 32, 87, 111, 114, 100, 115, 58>>)
         \o setBold(TRUE) \o printLine(data.amountInWords) \o setBold(FALSE)
         \o printLine(<<>>)
    ELSE <<>>

\* 9. Narration (Remarks)
narrationBlock(data, s) ==
    IF data.narration # <<>>
    THEN printSeparator(separatorOf(s), TOTAL_RECEIPT_WIDTH)
         \o setAlignment("center") \o setBold(TRUE) \o printLine(<<82, 101, 109, 97, 114, 107, 115, 58>>)
         \o setBold(FALSE) \o setAlignment("left")
         \o printLines(hardWrap(data.narration, TOTAL_RECEIPT_WIDTH))
         \o printSeparator(separatorOf(s), TOTAL_RECEIPT_WIDTH)
         \o printLine(<<>>)
    ELSE <<>>

\* 10. Terms and Conditions
termsBlock(data, s) ==
    IF data.termsAndConditions # <<>>
    THEN printSeparator(separatorOf(s), TOTAL_RECEIPT_WIDTH)
         \o setAlignment("center") \o printLine(<<84, 101, 114, 109, 115, 32, 38, 32, 67, 111, 110, 100, 105, 116, 105, 111, 110, 115, 58>>)
         \o setAlignment("left")
         \o printLines(hardWrap(data.termsAndConditions, TOTAL_RECEIPT_WIDTH))
         \o printLine(<<>>)
    ELSE <<>>

\* 11. Authorized Signatory
signatoryBlock(data) ==
    IF data.authorizedSignatory # <<>>
    THEN setAlignment("right") \o printLine(<<>>) \o printLine(<<>>)
         \o printLine(data.authorizedSignatory) \o printLine(<<>>)
    ELSE <<>>

\* 12. Thank you message
thankYou ==
    setAlignment("center") \o printLine(<<84, 104, 97, 110, 107, 32, 121, 111, 117, 32, 102, 111, 114, 32, 121, 111, 117, 114, 32, 98, 117, 115, 105, 110, 101, 115, 115, 33>>)
    \o printLine(<<>>)

\* paperFeed with four line feeds
paperFeed_four == <<LF, LF, LF, LF>>

\* Extra line feeds at the end for paper to come out
paperFeed == <<LF, LF, LF, LF, LF>>

\* Full cut (GS V 0)
fullCut == <<GS, 86, 0>>

\* Initialize printer (ESC @): the first bytes pushed
initializePrinter == <<ESC, 64>>

\* Sections 1 to 12 and the end of the stream
receiptBody(data, s) ==
    companyHeader(data, s)
    \o invoiceType(data, s)
    \o orderDetails(data, s)
    \o partyDetails(data)
    \o itemsHeader(s)
    \o itemsList(data)
    \o totalsBlock(data, s)
    \o amountInWordsBlock(data)
    \o narrationBlock(data, s)
    \o termsBlock(data, s)
    \o signatoryBlock(data)
    \o thankYou
    \o paperFeed
    \o fullCut

-----------------------------------------------------------------------------
(* The inputs of the extraction *)

\* The lists over S of length at most n
SeqsUpTo(S, n) == UNION {[1..k -> S] : k \in 0..n}

Entry(name, qty, rate, amount) ==
    [STOCKITEMNAME |-> name, ACTUALQTY |-> qty, RATE |-> rate, AMOUNT |-> amount]

\* Widget, 10 NOS at 25.00/NOS, 250.00
EntryWidget == Entry(<<87, 105, 100, 103, 101, 116>>, <<49, 48, 32, 78, 79, 83>>, <<50, 53, 46, 48, 48, 47, 78, 79, 83>>, <<50, 53, 48, 46, 48, 48>>)
\* " Gadget ", a quantity that is no number, a negative rate and amount
EntryGadget == Entry(<<32, 71, 97, 100, 103, 101, 116, 32>>, <<97, 98, 99>>, <<45, 53, 46, 48, 48, 47, 78, 79, 83>>, <<45, 48, 46, 48, 48, 52>>)
\* Bolt, " 2.5 KGS", no RATE element, 0.004
EntryBolt == Entry(<<66, 111, 108, 116>>, <<32, 50, 46, 53, 32, 75, 71, 83>>, <<>>, <<48, 46, 48, 48, 52>>)
\* No name and no quantity, 1.25 with no unit, 12.346
EntryBare == Entry(<<>>, <<>>, <<49, 46, 50, 53>>, <<49, 50, 46, 51, 52, 54>>)
\* A RATE and an AMOUNT that are no numbers
EntryJunk == Entry(<<78, 117, 116>>, <<51>>, <<97, 98, 99>>, <<97, 98, 99>>)

AllInventoryPool == {EntryWidget, EntryGadget}
InventoryOutPool == {EntryBolt, EntryWidget}
InventoryInLists == {<<>>, <<EntryBare>>, <<EntryJunk>>}

Ledger(name, amount, isParty) ==
    [LEDGERNAME |-> name, AMOUNT |-> amount, ISPARTYLEDGER |-> isParty]

\* A party ledger of -1180.00 with CGST 90.00 and SGST 90.00
LedgersIntraState ==
    <<Ledger(<<65, 99, 109, 101, 32, 83, 116, 111, 114, 101, 115>>, <<45, 49, 49, 56, 48, 46, 48, 48>>, <<89, 101, 115>>),
      Ledger(<<83, 97, 108, 101, 115>>, <<49, 48, 48, 48, 46, 48, 48>>, <<78, 111>>),
      Ledger(<<67, 71, 83, 84>>, <<57, 48, 46, 48, 48>>, <<78, 111>>),
      Ledger(<<83, 71, 83, 84>>, <<57, 48, 46, 48, 48>>, <<78, 111>>)>>
\* IGST 450.00 and two party ledgers, the first of -2950.00
LedgersInterState ==
    <<Ledger(<<73, 71, 83, 84>>, <<52, 53, 48, 46, 48, 48>>, <<78, 111>>),
      Ledger(<<65, 99, 109, 101, 32, 83, 116, 111, 114, 101, 115>>, <<32, 45, 50, 57, 53, 48, 46, 48, 48>>, <<32, 89, 101, 115, 32>>),
      Ledger(<<65, 99, 109, 101, 32, 83, 116, 111, 114, 101, 115, 32, 50>>, <<49, 46, 48, 48>>, <<89, 101, 115>>)>>
\* No party ledger ("No", "yes"), a negative CGST, SGST under its other name
LedgersNoParty ==
    <<Ledger(<<67, 71, 83, 84>>, <<45, 57, 46, 48, 48>>, <<78, 111>>),
      Ledger(<<65, 99, 109, 101, 32, 83, 116, 111, 114, 101, 115>>, <<55, 55, 46, 48, 48>>, <<121, 101, 115>>),
      Ledger(<<83, 71, 83, 84, 47, 85, 84, 71, 83, 84>>, <<57, 46, 48, 48, 52>>, <<>>)>>
\* SGST of 0 beside SGST/UTGST 12.50, an IGST that is no number, a party
\* ledger with no AMOUNT element
LedgersOdd ==
    <<Ledger(<<83, 71, 83, 84>>, <<48>>, <<78, 111>>),
      Ledger(<<83, 71, 83, 84, 47, 85, 84, 71, 83, 84>>, <<49, 50, 46, 53, 48>>, <<78, 111>>),
      Ledger(<<73, 71, 83, 84>>, <<97, 98, 99>>, <<78, 111>>),
      Ledger(<<65, 99, 109, 101, 32, 83, 116, 111, 114, 101, 115>>, <<>>, <<89, 101, 115>>)>>

\* The rest of a voucher: its scalar fields, its address lines, its ledgers,
\* and whether the text holds &#4;.
Rests ==
    {[company |-> <<32, 65, 67, 77, 69, 32, 84, 82, 65, 68, 69, 82, 83, 32>>, cmpGstin |-> <<50, 55, 65, 65, 65, 67, 65, 49, 49, 49, 49, 65, 49, 90, 53>>,
      number |-> <<83, 79, 53, 52, 50>>, date |-> <<50, 48, 50, 53, 48, 55, 48, 57>>, user |-> <<114, 111, 104, 97, 110>>,
      partyName |-> <<65, 99, 109, 101, 32, 83, 116, 111, 114, 101, 115>>, partyGstin |-> <<50, 55, 66, 66, 66, 67, 66, 50, 50, 50, 50, 66, 49, 90, 54>>,
      address |-> <<<<32, 49, 50, 32, 77, 97, 105, 110, 32, 82, 111, 97, 100, 32>>, <<80, 117, 110, 101>>>>,
      narration |-> <<32, 72, 97, 110, 100, 108, 101, 32, 119, 105, 116, 104, 32, 99, 97, 114, 101, 32>>,
      ledgers |-> LedgersIntraState, entity4 |-> TRUE],
     [company |-> <<65, 67, 77, 69, 32, 84, 82, 65, 68, 69, 82, 83>>, cmpGstin |-> <<>>,
      number |-> <<55>>, date |-> <<50, 48, 50, 53, 49, 50, 51, 49>>, user |-> <<>>,
      partyName |-> <<65, 99, 109, 101, 32, 83, 116, 111, 114, 101, 115>>, partyGstin |-> <<>>,
      address |-> <<<<80, 117, 110, 101>>>>, narration |-> <<>>,
      ledgers |-> LedgersInterState, entity4 |-> FALSE],
     [company |-> <<>>, cmpGstin |-> <<>>,
      number |-> <<>>, date |-> <<>>, user |-> <<>>,
      partyName |-> <<>>, partyGstin |-> <<>>,
      address |-> <<>>, narration |-> <<>>,
      ledgers |-> <<>>, entity4 |-> FALSE],
     [company |-> <<>>, cmpGstin |-> <<>>,
      number |-> <<74, 45, 49>>, date |-> <<50, 48, 50, 53>>, user |-> <<114, 111, 104, 97, 110>>,
      partyName |-> <<>>, partyGstin |-> <<>>,
      address |-> <<>>, narration |-> <<73, 110, 116, 101, 114, 110, 97, 108>>,
      ledgers |-> LedgersNoParty, entity4 |-> FALSE],
     [company |-> <<65, 67, 77, 69, 32, 84, 82, 65, 68, 69, 82, 83>>, cmpGstin |-> <<50, 55, 65, 65, 65, 67, 65, 49, 49, 49, 49, 65, 49, 90, 53>>,
      number |-> <<83, 79, 53, 52, 51>>, date |-> <<50, 48, 50, 53, 48, 55, 49, 48>>, user |-> <<114, 111, 104, 97, 110>>,
      partyName |-> <<65, 99, 109, 101, 32, 83, 116, 111, 114, 101, 115>>, partyGstin |-> <<>>,
      address |-> <<>>, narration |-> <<>>,
      ledgers |-> LedgersOdd, entity4 |-> FALSE]}

\* The VOUCHERTYPENAME texts of the inputs
VoucherTypeNames ==
    {<<>>, <<80, 117, 114, 99, 104, 97, 115, 101>>, <<83, 97, 108, 101, 115>>, <<32, 83, 97, 108, 101, 115, 32, 79, 114, 100, 101, 114, 32>>, <<68, 101, 108, 105, 118, 101, 114, 121, 32, 78, 111, 116, 101>>,
     <<77, 97, 116, 101, 114, 105, 97, 108, 32, 79, 117, 116>>, <<83, 116, 111, 99, 107, 32, 74, 111, 117, 114, 110, 97, 108>>, <<83, 97, 108, 101, 115, 32, 68, 101, 108, 105, 118, 101, 114, 121>>,
     <<83, 97, 108, 101, 115, 32, 79, 114, 100, 101, 114, 32, 83, 116, 111, 99, 107, 32, 74, 111, 117, 114, 110, 97, 108>>}

\* The OBJVIEW texts of the inputs
ObjViews == {<<73, 110, 118, 111, 105, 99, 101, 32, 86, 111, 117, 99, 104, 101, 114, 32, 86, 105, 101, 119>>, <<67, 111, 110, 115, 117, 109, 112, 116, 105, 111, 110, 32, 86, 111, 117, 99, 104, 101, 114, 32, 86, 105, 101, 119>>}

VoucherElement(type, view, all, in, out, r) ==
    [VOUCHERTYPENAME |-> type, OBJVIEW |-> view,
     CMPGSTIN |-> r.cmpGstin, VOUCHERNUMBER |-> r.number, DATE |-> r.date,
     ENTEREDBY |-> r.user, PARTYNAME |-> r.partyName,
     PARTYGSTIN |-> r.partyGstin, NARRATION |-> r.narration,
     BASICBUYERADDRESS |-> r.address,
     ALLINVENTORYENTRIES_LIST |-> all,
     INVENTORYENTRIESIN_LIST |-> in,
     INVENTORYENTRIESOUT_LIST |-> out,
     LEDGERENTRIES_LIST |-> r.ledgers]

\* A well-formed export with a VOUCHER element
VoucherDocs ==
    {[isString |-> TRUE, entity4 |-> r.entity4, wellFormed |-> TRUE,
      hasVoucher |-> TRUE, company |-> r.company,
      voucher |-> VoucherElement(type, view, all, in, out, r)] :
        type \in VoucherTypeNames, view \in ObjViews,
        all \in SeqsUpTo(AllInventoryPool, MaxItems),
        in \in InventoryInLists,
        out \in SeqsUpTo(InventoryOutPool, MaxItems),
        r \in Rests}

\* An argument that is no string, text that is not well-formed (with and
\* without &#4;), and well-formed text with no VOUCHER element
BadDocs ==
    LET r == CHOOSE x \in Rests : x.ledgers = LedgersIntraState
        v == VoucherElement(<<83, 97, 108, 101, 115>>, <<>>, <<EntryWidget>>, <<>>, <<>>, r)
        d == [isString |-> TRUE, entity4 |-> FALSE, wellFormed |-> TRUE,
              hasVoucher |-> TRUE, company |-> r.company, voucher |-> v]
    IN  {[d EXCEPT !.isString = FALSE],
         [d EXCEPT !.wellFormed = FALSE],
         [d EXCEPT !.wellFormed = FALSE, !.entity4 = TRUE],
         [d EXCEPT !.hasVoucher = FALSE],
         [d EXCEPT !.hasVoucher = FALSE, !.entity4 = TRUE]}

Docs == VoucherDocs \cup BadDocs

-----------------------------------------------------------------------------
(* The inputs of the generation *)

\* The vouchers whose Invoices are printed: one item, four items from the
\* three lists, no item
GenDocs ==
    {[isString |-> TRUE, entity4 |-> r.entity4, wellFormed |-> TRUE,
      hasVoucher |-> TRUE, company |-> r.company,
      voucher |-> VoucherElement(l[1], <<>>, l[2], l[3], l[4], r)] :
        l \in {<<<<32, 83, 97, 108, 101, 115, 32, 79, 114, 100, 101, 114, 32>>, <<EntryWidget>>, <<>>, <<>>>>,
               <<<<>>, <<EntryGadget>>, <<EntryJunk>>, <<EntryBolt, EntryWidget>>>>,
               <<<<83, 116, 111, 99, 107, 32, 74, 111, 117, 114, 110, 97, 108>>, <<EntryWidget>>, <<>>, <<>>>>},
        r \in Rests}

\* The fields of an Invoice that parseTallyXML does not set
NoExtras ==
    [address |-> <<>>, phone |-> <<>>, amountInWords |-> <<>>,
     termsAndConditions |-> <<>>, authorizedSignatory |-> <<>>]
AllExtras ==
    [address |-> <<49, 32, 77, 105, 108, 108, 32, 76, 97, 110, 101>> \o <<10>> \o <<80, 117, 110, 101, 32, 52, 49, 49, 48, 48, 49>>,
     phone |-> <<48, 50, 48, 45, 53, 53, 53, 48, 49, 48, 48>>,
     amountInWords |-> <<84, 119, 111, 32, 72, 117, 110, 100, 114, 101, 100, 32, 70, 105, 102, 116, 121, 32, 82, 117, 112, 101, 101, 115, 32, 79, 110, 108, 121>>,
     termsAndConditions |->
        <<71, 111, 111, 100, 115, 32, 111, 110, 99, 101, 32, 115, 111, 108, 100, 32, 97, 114, 101, 32, 110, 111, 116, 32, 116, 97, 107, 101, 110, 32, 98, 97, 99, 107, 46, 32, 65, 32, 102, 101, 101, 32, 111, 102, 32>> \o <<Rupee>>
        \o <<53, 48, 32, 97, 112, 112, 108, 105, 101, 115, 46>>,
     authorizedSignatory |-> <<70, 111, 114, 32, 65, 67, 77, 69, 32, 84, 82, 65, 68, 69, 82, 83>>]

\* An Invoice of parseTallyXML with the other fields the generator reads (a
\* field that is undefined in JavaScript is the empty string here: both are
\* falsy)
withExtras(inv, x) ==
    [heading |-> inv.heading,
     company |-> [name |-> inv.company.name, gstin |-> inv.company.gstin,
                  address |-> x.address, phone |-> x.phone],
     order |-> inv.order, party |-> inv.party, items |-> inv.items,
     totals |-> inv.totals, narration |-> inv.narration,
     amountInWords |-> x.amountInWords,
     termsAndConditions |-> x.termsAndConditions,
     authorizedSignatory |-> x.authorizedSignatory]

\* The settings: with and without a logo, three header alignments each with
\* its separator ('' is no separator set), the four emphasis choices
SettingsSet ==
    {[logoUrl |-> logo, headerAlignment |-> a[1], lineSeparator |-> a[2],
      sectionStyles |-> [orderInfo |-> [labelBold |-> lb, valueBold |-> vb]]] :
        logo \in {<<>>, <<108, 111, 103, 111, 46, 112, 110, 103>>},
        a \in {<<"center", <<45>>>>, <<"left", <<61>>>>, <<"right", <<>>>>},
        lb \in BOOLEAN, vb \in BOOLEAN}

\* The images a logo URL may load: the natural size and the canvas pattern
Images ==
    {[width |-> 384, height |-> 1, pattern |-> "black"],
     [width |-> 768, height |-> 4, pattern |-> "stripes"],
     [width |-> 192, height |-> 1, pattern |-> "dots"],
     [width |-> 384, height |-> 1, pattern |-> "escape"]}

-----------------------------------------------------------------------------
(* The state a specification leaves alone *)

\* No call of printImage of its own
NoImage == [none |-> TRUE]
\* An image URL whose load fails
Broken == [broken |-> TRUE]
ImageIdle ==
    /\ imageUrl = <<>>
    /\ image = NoImage
    /\ imageWidthPx = 0
    /\ imagePc = "idle"

\* A status line: its text and the number it shows (0 when it shows none)
Status(text, n) == [text |-> text, n |-> n]

\* No call of handleWebUSBPrint
PrintIdle ==
    /\ runs = <<>>
    /\ runLimit = 0
    /\ currentPrintingId = <<>>
    /\ transfers = <<>>
    /\ generations = <<>>
    /\ removals = {}

\* App as it is mounted, with nothing saved
NoItem == [item |-> FALSE]
AppIdle ==
    /\ PrintIdle
    /\ files = <<>>
    /\ xmlFiles = <<>>
    /\ pendingReads = {}
    /\ processedFiles = <<>>
    /\ completed = 0
    /\ printQueue = <<>>
    /\ status = Status("Ready. Please select Tally XML files.", 0)
    /\ errors = {}
    /\ preview = Null
    /\ copyCount = Num(1000)
    /\ saved = NoItem
    /\ mounted = FALSE

\* Nothing stands outside the calls of parseTallyXML and generateEscPosCommands
NotGenIdle == ImageIdle /\ calls = <<>> /\ AppIdle

-----------------------------------------------------------------------------
(* The extraction as a state machine: one call of parseTallyXML *)

\* The value of result before parseTallyXML returns
Pending == [pending |-> TRUE]

NoSettings ==
    [logoUrl |-> <<>>, headerAlignment |-> "center", lineSeparator |-> <<>>,
     sectionStyles |-> [orderInfo |-> [labelBold |-> FALSE, valueBold |-> FALSE]]]

InitParse ==
    /\ xmlString \in Docs
    /\ parsed = FALSE
    /\ result = Pending
    /\ xmlData = Null
    /\ settings = NoSettings
    /\ pc = "idle"
    /\ commands = <<>>
    /\ logoCommands = <<>>
    /\ output = <<>>
    /\ NotGenIdle

\* parseTallyXML(xmlString) returns
Parse ==
    /\ ~parsed
    /\ parsed' = TRUE
    /\ result' = parseTallyXML(xmlString)
    /\ UNCHANGED <<xmlString, genVars>>
    /\ UNCHANGED notGenVars

NextParse == Parse

SpecParse == InitParse /\ [][NextParse]_vars

-----------------------------------------------------------------------------
(* The generation as a state machine: one call of generateEscPosCommands *)

InitGen ==
    /\ xmlString \in GenDocs \cup BadDocs
    /\ parsed = TRUE
    /\ result = parseTallyXML(xmlString)
    /\ xmlData \in IF result = Null THEN {Null}
                   ELSE {withExtras(result, x) : x \in {NoExtras, AllExtras}}
    /\ settings \in SettingsSet
    /\ pc = "start"
    /\ commands = <<>>
    /\ logoCommands = <<>>
    /\ output = <<>>
    /\ NotGenIdle

\* The call with no Invoice: an empty array is returned
GenNoData ==
    /\ pc = "start" /\ xmlData = Null
    /\ pc' = "done"
    /\ output' = <<>>
    /\ UNCHANGED <<parseVars, xmlData, settings, commands, logoCommands>>
    /\ UNCHANGED notGenVars

\* The call with a logo, up to the await of printImage
GenToLogo ==
    /\ pc = "start" /\ xmlData # Null /\ settings.logoUrl # <<>>
    /\ commands' = initializePrinter \o logoPrefix
    /\ pc' = "awaitLogo"
    /\ UNCHANGED <<parseVars, xmlData, settings, logoCommands, output>>
    /\ UNCHANGED notGenVars

\* img.onload: printImage resolves with the raster commands of the image
ImgOnload ==
    /\ pc = "awaitLogo"
    /\ \E img \in Images :
          /\ image' = img
          /\ logoCommands' = imageCommands(img, LogoWidthPx)
    /\ pc' = "resume"
    /\ UNCHANGED <<parseVars, xmlData, settings, commands, output>>
    /\ UNCHANGED <<imageUrl, imageWidthPx, imagePc, calls, appVars>>

\* ImgOnerror resolving with the header of an empty raster block
ImgOnerror_emptyBlock ==
    /\ pc = "awaitLogo"
    /\ image' = Broken
    /\ logoCommands' = <<GS, 118, 48, 0, 0, 0, 0, 0>>
    /\ pc' = "resume"
    /\ UNCHANGED <<parseVars, xmlData, settings, commands, output>>
    /\ UNCHANGED <<imageUrl, imageWidthPx, imagePc, calls, appVars>>

\* img.onerror: printImage resolves with no command
ImgOnerror ==
    /\ pc = "awaitLogo"
    /\ image' = Broken
    /\ logoCommands' = <<>>
    /\ pc' = "resume"
    /\ UNCHANGED <<parseVars, xmlData, settings, commands, output>>
    /\ UNCHANGED <<imageUrl, imageWidthPx, imagePc, calls, appVars>>

\* After the await: the logo, then sections 1 to 12, and the return
GenResume ==
    /\ pc = "resume"
    /\ commands' = commands \o logoSuffix(logoCommands)
                    \o receiptBody(xmlData, settings)
    /\ output' = commands'
    /\ pc' = "done"
    /\ UNCHANGED <<parseVars, xmlData, settings, logoCommands>>
    /\ UNCHANGED notGenVars

\* The call with no logo: it runs to its return without suspending
GenNoLogo ==
    /\ pc = "start" /\ xmlData # Null /\ settings.logoUrl = <<>>
    /\ commands' = initializePrinter \o receiptBody(xmlData, settings)
    /\ output' = commands'
    /\ pc' = "done"
    /\ UNCHANGED <<parseVars, xmlData, settings, logoCommands>>
    /\ UNCHANGED notGenVars

NextGen ==
    \/ GenNoData
    \/ GenToLogo
    \/ ImgOnload
    \/ ImgOnerror
    \/ GenResume
    \/ GenNoLogo

SpecGen == InitGen /\ [][NextGen]_vars

-----------------------------------------------------------------------------
(* Claims about the extraction, checked under SpecParse *)

\* parseTallyXML has returned an Invoice
Returned == parsed /\ result # Null

\* The upper-cased voucher type and object view of the input
TypeUpper == toUpperCase(Trim(xmlString.voucher.VOUCHERTYPENAME))
ViewUpper == toUpperCase(Trim(xmlString.voucher.OBJVIEW))

AllEntries == xmlString.voucher.ALLINVENTORYENTRIES_LIST
InEntries  == xmlString.voucher.INVENTORYENTRIESIN_LIST
OutEntries == xmlString.voucher.INVENTORYENTRIESOUT_LIST

\* The items of the result without their sequence numbers
BareItems ==
    [k \in 1..Len(result.items) |->
        [name |-> result.items[k].name, qty |-> result.items[k].qty,
         rate |-> result.items[k].rate, amount |-> result.items[k].amount]]

InvoiceFields ==
    {"heading", "company", "order", "party", "items", "totals", "narration"}

\* C1: parseTallyXML never returns a partially built Invoice: when the
\* argument is no string, the text (its &#4; references removed) is not
\* well-formed, or the VOUCHER element is absent, the result is null;
\* otherwise it is a record with heading, company, order, party, items,
\* totals and narration, each with all of its own fields.
C1_NullOrCompleteInvoice ==
    parsed =>
        IF ~xmlString.isString \/ ~xmlString.wellFormed \/ ~xmlString.hasVoucher
        THEN result = Null
        ELSE /\ DOMAIN result = InvoiceFields
             /\ DOMAIN result.company = {"name", "gstin"}
             /\ DOMAIN result.order = {"number", "date", "user"}
             /\ DOMAIN result.party = {"name", "address", "gstin"}
             /\ DOMAIN result.totals = {"subtotal", "igst", "cgst", "sgst", "total"}
             /\ \A k \in 1..Len(result.items) :
                    DOMAIN result.items[k] = {"name", "qty", "rate", "amount", "sNo"}

\* C1's case: well-formed text with no VOUCHER element was parsed to null
C1_Witness ==
    /\ parsed /\ result = Null
    /\ xmlString.isString /\ xmlString.wellFormed /\ ~xmlString.hasVoucher

\* The rules of the item-list table, on the upper-cased strings
RuleJournal ==
    includes(TypeUpper, <<83, 84, 79, 67, 75, 32, 74, 79, 85, 82, 78, 65, 76>>)
        \/ includes(ViewUpper, <<67, 79, 78, 83, 85, 77, 80, 84, 73, 79, 78, 32, 86, 79, 85, 67, 72, 69, 82, 32, 86, 73, 69, 87>>)
RuleSales == includes(TypeUpper, <<83, 65, 76, 69, 83>>)
RuleChallan ==
    includes(TypeUpper, <<77, 65, 84, 69, 82, 73, 65, 76, 32, 79, 85, 84>>) \/ includes(TypeUpper, <<68, 69, 76, 73, 86, 69, 82, 89>>)

\* The entry list the first matching rule of the table selects
TableEntries ==
    CASE RuleJournal -> OutEntries
      [] ~RuleJournal /\ RuleSales ->
            IF AllEntries = <<>> THEN OutEntries ELSE AllEntries
      [] ~RuleJournal /\ ~RuleSales /\ RuleChallan ->
            IF OutEntries = <<>> THEN AllEntries ELSE OutEntries
      [] OTHER -> AllEntries \o InEntries \o OutEntries

\* C2: the items are those of the entry list chosen by the first matching
\* rule: STOCK JOURNAL / CONSUMPTION VOUCHER VIEW -> out-going only; SALES ->
\* all-inventory, else out-going; MATERIAL OUT / DELIVERY -> out-going, else
\* all-inventory; otherwise all-inventory, in-going, out-going concatenated.
C2_ItemListByFirstMatchingRule ==
    Returned => BareItems = parseItemsFromList(TableEntries)

\* C2's case: the first rule applied to an empty out-going list beside a
\* non-empty all-inventory list, and no item was extracted
C2_Witness ==
    /\ Returned /\ RuleJournal
    /\ OutEntries = <<>> /\ AllEntries # <<>> /\ result.items = <<>>

\* C3: a SALES ORDER voucher with an empty all-inventory list and a
\* non-empty out-going list yields exactly the out-going entries, in order.
C3_SalesOrderFallsBackToOutgoing ==
    (Returned /\ includes(TypeUpper, <<83, 65, 76, 69, 83, 32, 79, 82, 68, 69, 82>>)
        /\ AllEntries = <<>> /\ OutEntries # <<>>)
    => /\ result.items # <<>>
       /\ BareItems = parseItemsFromList(OutEntries)

\* C3's case: a SALES ORDER voucher (no journal rule) fell back to its two
\* out-going entries
C3_Witness ==
    /\ Returned /\ includes(TypeUpper, <<83, 65, 76, 69, 83, 32, 79, 82, 68, 69, 82>>) /\ ~RuleJournal
    /\ AllEntries = <<>> /\ Len(OutEntries) = 2 /\ Len(result.items) = 2

\* C4: the heading is set by the first matching check, in the order
\* SALES ORDER, MATERIAL OUT / DELIVERY -> MATERIAL CHALLAN, SALES -> SALES
\* INVOICE, STOCK JOURNAL, and DOCUMENT otherwise.
C4_HeadingByPriority ==
    Returned =>
        result.heading =
            CASE includes(TypeUpper, <<83, 65, 76, 69, 83, 32, 79, 82, 68, 69, 82>>) -> <<83, 65, 76, 69, 83, 32, 79, 82, 68, 69, 82>>
              [] ~includes(TypeUpper, <<83, 65, 76, 69, 83, 32, 79, 82, 68, 69, 82>>) /\ RuleChallan
                    -> <<77, 65, 84, 69, 82, 73, 65, 76, 32, 67, 72, 65, 76, 76, 65, 78>>
              [] ~RuleChallan /\ ~includes(TypeUpper, <<83, 65, 76, 69, 83, 32, 79, 82, 68, 69, 82>>)
                    /\ includes(TypeUpper, <<83, 65, 76, 69, 83>>) -> <<83, 65, 76, 69, 83, 32, 73, 78, 86, 79, 73, 67, 69>>
              [] ~RuleChallan /\ ~includes(TypeUpper, <<83, 65, 76, 69, 83>>)
                    /\ includes(TypeUpper, <<83, 84, 79, 67, 75, 32, 74, 79, 85, 82, 78, 65, 76>>) -> <<83, 84, 79, 67, 75, 32, 74, 79, 85, 82, 78, 65, 76>>
              [] OTHER -> <<68, 79, 67, 85, 77, 69, 78, 84>>

\* C4's case: a type with both SALES and DELIVERY got MATERIAL CHALLAN
C4_Witness ==
    /\ Returned
    /\ includes(TypeUpper, <<83, 65, 76, 69, 83>>) /\ includes(TypeUpper, <<68, 69, 76, 73, 86, 69, 82, 89>>)
    /\ result.heading = <<77, 65, 84, 69, 82, 73, 65, 76, 32, 67, 72, 65, 76, 76, 65, 78>>

\* The sum of the absolute source amounts of a list of entries, unrounded
RECURSIVE SumSourceAmounts(_)
SumSourceAmounts(entries) ==
    IF entries = <<>> THEN Num(0)
    ELSE Plus(SumSourceAmounts(Tail(entries)),
              MathAbs(parseFloatOr0(Trim(Head(entries).AMOUNT))))

\* C5: subtotal is the sum of the unrounded absolute source amounts of the
\* extracted items, formatted to 2 decimals once, after summing.
C5_SubtotalSumsUnroundedAmounts ==
    Returned => result.totals.subtotal = toFixed2(SumSourceAmounts(TableEntries))

\* The ledger entries flagged as the party ledger
PartyLedgers ==
    {i \in 1..Len(xmlString.voucher.LEDGERENTRIES_LIST) :
        Trim(xmlString.voucher.LEDGERENTRIES_LIST[i].ISPARTYLEDGER) = <<89, 101, 115>>}

\* C6: with a ledger entry flagged ISPARTYLEDGER = Yes, total is the absolute
\* amount of the first such entry to 2 decimals; with none, total = subtotal.
C6_TotalFromPartyLedger ==
    Returned =>
        IF PartyLedgers # {}
        THEN LET first == CHOOSE i \in PartyLedgers : \A j \in PartyLedgers : i <= j
                 amount == parseFloatOr0(
                     Trim(xmlString.voucher.LEDGERENTRIES_LIST[first].AMOUNT))
             IN  result.totals.total = toFixed2(MathAbs(amount))
        ELSE result.totals.total = result.totals.subtotal

\* C6's case: two ledgers are flagged, the first has a negative amount, and
\* the total is not the subtotal
C6_Witness ==
    /\ Returned /\ Cardinality(PartyLedgers) = 2
    /\ result.totals.total = <<50, 57, 53, 48, 46, 48, 48>>
    /\ result.totals.total # result.totals.subtotal

\* A non-negative decimal with exactly 2 fraction digits: digits, a point,
\* two digits
IsMoney(s) ==
    /\ Len(s) >= 4
    /\ s[Len(s) - 2] = 46
    /\ \A i \in 1..Len(s) : i # Len(s) - 2 => IsDigit(s[i])

\* C7: every monetary string of a returned Invoice (each item's rate and
\* amount, and subtotal, cgst, sgst, igst, total) is a non-negative decimal
\* with exactly 2 fraction digits.
C7_MoneyNonNegativeTwoDigits ==
    Returned =>
        /\ \A k \in 1..Len(result.items) :
              IsMoney(result.items[k].rate) /\ IsMoney(result.items[k].amount)
        /\ IsMoney(result.totals.subtotal) /\ IsMoney(result.totals.cgst)
        /\ IsMoney(result.totals.sgst) /\ IsMoney(result.totals.igst)
        /\ IsMoney(result.totals.total)

\* C8: the item at position k has sequence number k.
C8_SequenceNumbersDense ==
    Returned => \A k \in 1..Len(result.items) : result.items[k].sNo = k

\* C8's case: the three lists were concatenated, with the same entry twice
C8_Witness ==
    /\ Returned /\ ~RuleJournal /\ ~RuleSales /\ ~RuleChallan
    /\ Len(result.items) >= 4
    /\ \E j, k \in 1..Len(result.items) : j < k /\ BareItems[j] = BareItems[k]

-----------------------------------------------------------------------------
(* Claims about the command stream, checked under SpecGen *)

\* generateEscPosCommands has returned a stream for an Invoice
Generated == pc = "done" /\ xmlData # Null

\* The bytes of the raster block of the returned stream: with a logo that
\* loaded, GS v 0 follows the initialize and centre commands, and its header
\* gives the number of bitmap bytes.
RasterRegion ==
    IF Len(output) >= 13 /\ SubSeq(output, 6, 9) = <<GS, 118, 48, 0>>
    THEN 6..(13 + (output[10] + 256 * output[11]) * (output[12] + 256 * output[13]))
    ELSE {}

\* The bytes s stand in the returned stream from index i on
OccursAt(i, s) ==
    i + Len(s) - 1 <= Len(output) /\ SubSeq(output, i, i + Len(s) - 1) = s

\* Index i starts a line: it follows a line feed or a three-byte command
StartsLine(i) ==
    /\ i > 1 /\ i \notin RasterRegion
    /\ \/ output[i - 1] = LF
       \/ i > 3 /\ output[i - 3] = ESC /\ output[i - 2] \in {97, 69, 33}

\* Where the text line `text` is printed in the returned stream
LinesOf(text) ==
    {i \in 1..Len(output) : StartsLine(i) /\ OccursAt(i, encodeText(text) \o <<LF>>)}

\* Where a text beginning with `label` starts a line
LabelsOf(label) ==
    {i \in 1..Len(output) : StartsLine(i) /\ OccursAt(i, encodeText(label))}

\* Whether emphasis is on at index i: the last ESC E n before it has n = 1
EmphasizedAt(i) ==
    LET at == {j \in 1..(i - 3) :
                  j \notin RasterRegion /\ output[j] = ESC /\ output[j + 1] = 69}
    IN  at # {} /\ output[(CHOOSE j \in at : \A k \in at : k <= j) + 2] = 1

\* Where the initialize-printer command stands in the returned stream
InitializeAt ==
    {i \in 1..(Len(output) - 1) :
        i \notin RasterRegion /\ output[i] = ESC /\ output[i + 1] = 64}

TaxPositive(value) == ~parseFloat(value).nan /\ parseFloat(value).v > 0

\* The line of a tax is printed once when its value is above zero, and no
\* line starts with its label otherwise
TaxLineIff(label, value) ==
    IF TaxPositive(value)
    THEN Cardinality(LinesOf(label \o value)) = 1
         /\ LabelsOf(label) = LinesOf(label \o value)
    ELSE LabelsOf(label) = {}

\* C10: a CGST, SGST or IGST line is emitted if and only if that tax value
\* is strictly greater than zero; the emitted lines stand in the order
\* Subtotal, CGST, SGST, IGST, Total; only the Total line is emphasized.
C10_TaxLinesOnlyWhenPositive ==
    Generated =>
        LET sub   == LabelsOf(<<83, 117, 98, 32, 84, 111, 116, 97, 108, 58, 32>>)
            cgst  == LabelsOf(<<67, 71, 83, 84, 58, 32>>)
            sgst  == LabelsOf(<<83, 71, 83, 84, 58, 32>>)
            igst  == LabelsOf(<<73, 71, 83, 84, 58, 32>>)
            total == LabelsOf(<<84, 79, 84, 65, 76, 58, 32, 82, 115, 46, 32>>)
        IN  /\ Cardinality(sub) = 1 /\ Cardinality(total) = 1
            /\ TaxLineIff(<<67, 71, 83, 84, 58, 32>>, xmlData.totals.cgst)
            /\ TaxLineIff(<<83, 71, 83, 84, 58, 32>>, xmlData.totals.sgst)
            /\ TaxLineIff(<<73, 71, 83, 84, 58, 32>>, xmlData.totals.igst)
            /\ \A a \in sub : \A b \in cgst \cup sgst \cup igst \cup total : a < b
            /\ \A a \in cgst : \A b \in sgst \cup igst \cup total : a < b
            /\ \A a \in sgst : \A b \in igst \cup total : a < b
            /\ \A a \in igst : \A b \in total : a < b
            /\ \A a \in sub \cup cgst \cup sgst \cup igst : ~EmphasizedAt(a)
            /\ \A a \in total : EmphasizedAt(a)

\* C10's case: cgst 0.00, sgst 0.00, igst 450.00 printed with an IGST line
\* and no CGST or SGST line
C10_Witness ==
    /\ Generated
    /\ xmlData.totals.cgst = <<48, 46, 48, 48>> /\ xmlData.totals.sgst = <<48, 46, 48, 48>>
    /\ xmlData.totals.igst = <<52, 53, 48, 46, 48, 48>>
    /\ LinesOf(<<73, 71, 83, 84, 58, 32, 52, 53, 48, 46, 48, 48>>) # {}
    /\ LabelsOf(<<67, 71, 83, 84, 58, 32>>) = {} /\ LabelsOf(<<83, 71, 83, 84, 58, 32>>) = {}

-----------------------------------------------------------------------------
(* The inputs of the layout: vouchers with long texts *)

\* A word of n letters: A, B, C, ...
Word(n) == [i \in 1..n |-> 65 + ((i - 1) % 26)]

\* The lengths of the words of the company names
WordLengths == {3, 13, 14, 15}

\* The company names: one to three words with a space between them, the
\* name of the reference example, and a name with two spaces in a row
CompanyNames ==
    {join([k \in 1..Len(ws) |-> Word(ws[k])], <<32>>) :
        ws \in SeqsUpTo(WordLengths, 3) \ {<<>>}}
    \cup {<<83, 85, 80, 69, 82, 76, 79, 78, 71, 32, 67, 79, 77, 80, 65, 78, 89, 32, 78, 65, 77, 69, 32, 80, 82, 73, 86, 65, 84, 69, 32, 76, 73, 77, 73, 84, 69, 68>>, <<65, 67, 77, 69, 32, 32, 84, 82, 65, 68, 69, 82, 83, 32, 65, 78, 68, 32, 83, 79, 78, 83>>}

\* The narrations: short, of the column width, one more, several chunks, one
\* with the rupee sign, one of the column width with the rupee sign, and one
\* with two rupee signs
Narrations ==
    {<<72, 97, 110, 100, 108, 101, 32, 119, 105, 116, 104, 32, 99, 97, 114, 101>>, Word(42), Word(43), Word(100),
     <<65, 100, 118, 97, 110, 99, 101, 32, 111, 102, 32>> \o <<Rupee>> \o <<53, 48, 48, 32, 114, 101, 99, 101, 105, 118, 101, 100>>,
     <<Rupee>> \o Word(41), <<Rupee>> \o <<53, 32, 97, 110, 100, 32>> \o <<Rupee>> \o <<55, 32, 112, 97, 105, 100>>}

\* The buyer address lists: a short line, a line of the column width, and
\* longer lines
AddressLists ==
    {<<<<49, 50, 32, 77, 97, 105, 110, 32, 82, 111, 97, 100>>, <<80, 117, 110, 101>>>>, <<Word(42)>>, <<Word(43)>>,
     <<<<80, 117, 110, 101>>, Word(90)>>}

\* The item names: none, short, of the name column width, one more, two and
\* three rows
ItemNames == {<<>>, Word(38), Word(39), Word(76), Word(77), Word(115)}

\* The terms and conditions beside AllExtras: of the column width and longer
TermsTexts == {Word(42), Word(85)}

\* A voucher with a short text in every field
LayoutRest ==
    [company |-> <<65, 67, 77, 69, 32, 84, 82, 65, 68, 69, 82, 83>>, cmpGstin |-> <<50, 55, 65, 65, 65, 67, 65, 49, 49, 49, 49, 65, 49, 90, 53>>,
     number |-> <<83, 79, 53, 52, 50>>, date |-> <<50, 48, 50, 53, 48, 55, 48, 57>>, user |-> <<114, 111, 104, 97, 110>>,
     partyName |-> <<65, 99, 109, 101, 32, 83, 116, 111, 114, 101, 115>>, partyGstin |-> <<>>,
     address |-> <<>>, narration |-> <<>>,
     ledgers |-> LedgersIntraState, entity4 |-> FALSE]

\* The vouchers of the layout: LayoutRest with one text replaced
LayoutRests ==
    {[LayoutRest EXCEPT !.company = n] : n \in CompanyNames}
    \cup {[LayoutRest EXCEPT !.narration = n] : n \in Narrations}
    \cup {[LayoutRest EXCEPT !.address = a] : a \in AddressLists}
    \cup {[LayoutRest EXCEPT !.partyName = <<>>]}

\* Items whose quantity line has 42, 43 and 49 characters
WideEntries ==
    {Entry(<<67, 114, 97, 110, 101>>, <<49, 50, 51, 52, 53, 32, 78, 79, 83>>, <<49, 50, 51, 52, 53, 46, 48, 48, 47, 78, 79, 83>>, <<49, 50, 51, 52, 46, 48, 48>>),
     Entry(<<67, 114, 97, 110, 101>>, <<49, 50, 51, 52, 53, 32, 78, 79, 83>>, <<49, 50, 51, 52, 53, 46, 48, 48, 47, 78, 79, 83>>, <<49, 50, 51, 52, 53, 46, 48, 48>>),
     Entry(<<67, 114, 97, 110, 101>>, <<49, 50, 51, 52, 53, 54, 55, 32, 78, 79, 83>>, <<49, 50, 51, 52, 53, 54, 55, 46, 48, 48, 47, 78, 79, 83>>, <<49, 50, 51, 52, 53, 54, 55, 46, 48, 48>>)}

\* The item lists of the layout: one Widget, a named item before a Widget,
\* or a Widget before an item with a wide quantity line
LayoutItemLists ==
    {<<EntryWidget>>}
    \cup {<<Entry(n, <<51, 32, 78, 79, 83>>, <<50, 46, 48, 48, 47, 78, 79, 83>>, <<54, 46, 48, 48>>), EntryWidget>> : n \in ItemNames}
    \cup {<<EntryWidget, e>> : e \in WideEntries}

\* The exports of the layout
LayoutDocs ==
    {[isString |-> TRUE, entity4 |-> FALSE, wellFormed |-> TRUE,
      hasVoucher |-> TRUE, company |-> r.company,
      voucher |-> VoucherElement(<<83, 97, 108, 101, 115>>, <<>>, <<EntryWidget>>, <<>>, <<>>, r)] :
        r \in LayoutRests}
    \cup
    {[isString |-> TRUE, entity4 |-> FALSE, wellFormed |-> TRUE,
      hasVoucher |-> TRUE, company |-> LayoutRest.company,
      voucher |-> VoucherElement(<<83, 97, 108, 101, 115>>, <<>>, l, <<>>, <<>>, LayoutRest)] :
        l \in LayoutItemLists}

\* The other fields of the Invoice: none, all, and all with longer terms
LayoutExtras ==
    {NoExtras, AllExtras}
    \cup {[AllExtras EXCEPT !.termsAndConditions = t] : t \in TermsTexts}

\* The settings of the layout: with and without a logo, each separator
LayoutSettings ==
    {[logoUrl |-> logo, headerAlignment |-> "center", lineSeparator |-> sep,
      sectionStyles |-> [orderInfo |-> [labelBold |-> FALSE, valueBold |-> TRUE]]] :
        logo \in {<<>>, <<108, 111, 103, 111, 46, 112, 110, 103>>}, sep \in {<<45>>, <<61>>, <<>>}}

\* One call of generateEscPosCommands for a voucher of the layout
InitLayout ==
    /\ xmlString \in LayoutDocs \cup {CHOOSE d \in BadDocs : ~d.hasVoucher /\ ~d.entity4}
    /\ parsed = TRUE
    /\ result = parseTallyXML(xmlString)
    /\ xmlData \in IF result = Null THEN {Null}
                   ELSE {withExtras(result, x) : x \in LayoutExtras}
    /\ settings \in LayoutSettings
    /\ pc = "start"
    /\ commands = <<>>
    /\ logoCommands = <<>>
    /\ output = <<>>
    /\ NotGenIdle

SpecLayout == InitLayout /\ [][NextGen]_vars

-----------------------------------------------------------------------------
(* Claims about the layout of the receipt, checked under SpecLayout *)

\* Where the bytes s stand in the returned stream, outside the raster block
PlacesOf(s) ==
    {i \in 1..Len(output) : i \notin RasterRegion /\ OccursAt(i, s)}

\* The lines of a run of bytes in which every line ends with a line feed
RECURSIVE LinesIn(_)
LinesIn(bytes) ==
    IF bytes = <<>> THEN <<>>
    ELSE LET n == CHOOSE i \in 1..Len(bytes) :
                    bytes[i] = LF /\ \A j \in 1..(i - 1) : bytes[j] # LF
         IN  <<SubSeq(bytes, 1, n - 1)>> \o LinesIn(SubSeq(bytes, n + 1, Len(bytes)))

\* The company-name lines of the returned stream: the lines between the
\* double-size command and the command that ends it
CompanyNameLinesOut ==
    LET on  == CHOOSE i \in PlacesOf(<<ESC, 33, 48>>) : TRUE
        off == CHOOSE i \in PlacesOf(<<ESC, 33, 0>>) : TRUE
    IN  LinesIn(SubSeq(output, on + 3, off - 1))

\* Where each line ends in the name (0 for nothing yet): a line stands at
\* the first character that is no space at or after position p
RECURSIVE LineEnds(_, _, _)
LineEnds(name, lines, p) ==
    IF lines = <<>> THEN <<>>
    ELSE LET from == {i \in p..Len(name) : name[i] # 32}
             s == IF from = {} THEN Len(name) + 1
                  ELSE CHOOSE i \in from : \A j \in from : i <= j
             e == IF Head(lines) = <<>> THEN p - 1 ELSE s + Len(Head(lines)) - 1
         IN  <<e>> \o LineEnds(name, Tail(lines), e + 1)

\* The length of the word of the name that holds position i
WordLengthAt(name, i) ==
    LET first == CHOOSE a \in 1..i :
                    /\ \A j \in a..i : name[j] # 32
                    /\ a = 1 \/ name[a - 1] = 32
        last  == CHOOSE b \in i..Len(name) :
                    /\ \A j \in i..b : name[j] # 32
                    /\ b = Len(name) \/ name[b + 1] = 32
    IN  last - first + 1

\* C11: each emitted company-name line has at most 14 characters; a line
\* break falls inside a word (between two characters that are no spaces)
\* only when that word is longer than 14 characters; and where the 14
\* characters from the start of a line hold a space, the break after that
\* line is at the last such space.
C11_CompanyNameBreaksAtSpaces ==
    (Generated /\ xmlData.company.name # <<>>) =>
        LET name  == xmlData.company.name
            lines == CompanyNameLinesOut
            ends  == LineEnds(name, lines, 1)
        IN  /\ \A k \in 1..Len(lines) : Len(lines[k]) <= 14
            /\ \A k \in 1..(Len(lines) - 1) :
                  (lines[k] # <<>> /\ ends[k] < Len(name) /\ name[ends[k] + 1] # 32)
                      => WordLengthAt(name, ends[k]) > 14
            /\ \A k \in 1..(Len(lines) - 1) :
                  LET s == ends[k] - Len(lines[k]) + 1
                      spaces == {i \in s..Min(s + 13, Len(name)) : name[i] = 32}
                  IN  (lines[k] # <<>> /\ spaces # {}) =>
                         \A i \in (ends[k] + 1)..(CHOOSE m \in spaces : \A j \in spaces : j <= m) :
                             name[i] = 32

-----------------------------------------------------------------------------
(* The raster converter as a state machine: one call of printImage *)

\* The natural sizes of the images, as <<width, height>>
ImageSizes == {<<16, 16>>, <<16, 8>>, <<10, 10>>, <<3, 7>>, <<40, 1>>}

\* The canvas patterns of the images
ImagePatterns == {"black", "white", "stripes", "escape", "grey", "dots"}

\* The images a URL may load
ImageFiles ==
    {[width |-> s[1], height |-> s[2], pattern |-> p] :
        s \in ImageSizes, p \in ImagePatterns}

\* The widths asked of printImage beside the 384 of the logo
TargetWidths == {8, 12, 16, 20}

\* A narrow image of 8192 rows: at a width of 8 it is scaled to 65536 rows
TallImage == [width |-> 1, height |-> 8192, pattern |-> "stripes"]

InitImage ==
    /\ xmlString = CHOOSE d \in BadDocs : ~d.isString
    /\ parsed = FALSE
    /\ result = Pending
    /\ xmlData = Null
    /\ settings = NoSettings
    /\ pc = "idle"
    /\ commands = <<>>
    /\ logoCommands = <<>>
    /\ output = <<>>
    /\ \/ /\ imageUrl = <<>>
          /\ image = NoImage
          /\ imageWidthPx \in TargetWidths
       \/ /\ imageUrl = <<108, 111, 103, 111, 46, 112, 110, 103>>
          /\ image \in ImageFiles \cup {Broken}
          /\ imageWidthPx \in TargetWidths
       \/ /\ imageUrl = <<108, 111, 103, 111, 46, 112, 110, 103>>
          /\ image = TallImage
          /\ imageWidthPx = 8
    /\ imagePc = "called"
    /\ calls = <<>>
    /\ AppIdle

\* if (!imageUrl) return new Uint8Array()
PrintImageNoUrl ==
    /\ imagePc = "called" /\ imageUrl = <<>>
    /\ logoCommands' = <<>>
    /\ imagePc' = "resolved"
    /\ UNCHANGED <<parseVars, xmlData, settings, pc, commands, output,
                   imageUrl, image, imageWidthPx, calls, appVars>>

\* img.onload: the promise resolves with the raster commands
PrintImageOnload ==
    /\ imagePc = "called" /\ imageUrl # <<>> /\ image # Broken
    /\ displayHeightOf(image, imageWidthPx) > 0
    /\ logoCommands' = imageCommands(image, imageWidthPx)
    /\ imagePc' = "resolved"
    /\ UNCHANGED <<parseVars, xmlData, settings, pc, commands, output,
                   imageUrl, image, imageWidthPx, calls, appVars>>

\* img.onload for a canvas of height 0: getImageData throws (IndexSizeError)
\* in the handler, and the promise is never resolved
PrintImageOnloadThrows ==
    /\ imagePc = "called" /\ imageUrl # <<>> /\ image # Broken
    /\ displayHeightOf(image, imageWidthPx) = 0
    /\ imagePc' = "threw"
    /\ UNCHANGED <<parseVars, genVars, imageUrl, image, imageWidthPx, calls,
                   appVars>>

\* img.onerror: the promise resolves with no command
PrintImageOnerror ==
    /\ imagePc = "called" /\ imageUrl # <<>> /\ image = Broken
    /\ logoCommands' = <<>>
    /\ imagePc' = "resolved"
    /\ UNCHANGED <<parseVars, xmlData, settings, pc, commands, output,
                   imageUrl, image, imageWidthPx, calls, appVars>>

NextImage ==
    \/ PrintImageNoUrl
    \/ PrintImageOnload
    \/ PrintImageOnloadThrows
    \/ PrintImageOnerror

SpecImage == InitImage /\ [][NextImage]_vars

-----------------------------------------------------------------------------
(* Claims about the raster converter, checked under SpecImage *)

\* printImage resolved with the raster block of an image
Rasterized == imagePc = "resolved" /\ imageUrl # <<>> /\ image # Broken

\* Bit b of a byte
BitOf(byte, b) == (byte \div (2 ^ b)) % 2

\* The luminance 0.299 R + 0.587 G + 0.114 B of a colour is below 128
LuminanceBelow128(rgb) == 299 * rgb[1] + 587 * rgb[2] + 114 * rgb[3] < 128000

\* The scaled size of the image and the bitmap bytes that follow the 8 bytes
\* of the header
ScaledW == imageWidthPx
ScaledH == displayHeightOf(image, imageWidthPx)
RowBytes == (ScaledW + 7) \div 8
BitmapOut == SubSeq(logoCommands, 9, Len(logoCommands))

\* C12: the converter produces exactly ceil(W/8)*H bytes, row-major, in
\* which bit (7 - x mod 8) of byte floor(x/8) of row y is 1 exactly when the
\* luminance of pixel (x, y) is below 128, and every padding bit at x >= W
\* is 0; a black 16x16 image at width 16 gives 2 bytes per row, 16 rows, all
\* bits 1.
C12_BitmapPacksLuminanceBits ==
    Rasterized =>
        /\ Len(BitmapOut) = RowBytes * ScaledH
        /\ \A y \in 0..(ScaledH - 1) : \A x \in 0..(RowBytes * 8 - 1) :
              LET byte == BitmapOut[y * RowBytes + (x \div 8) + 1]
              IN  BitOf(byte, 7 - (x % 8)) =
                     IF x < ScaledW /\ LuminanceBelow128(pixelAt(image, x, y))
                     THEN 1 ELSE 0
        /\ (image = [width |-> 16, height |-> 16, pattern |-> "black"]
            /\ imageWidthPx = 16)
              => BitmapOut = [i \in 1..32 |-> 255]

\* C13: the block is the header 1D 76 30 00 xL xH yL yH followed by the
\* bitmap bytes, where xL + 256 xH is the row width in bytes, yL + 256 yH is
\* the height in dots, and (width in bytes) * (height in dots) bitmap bytes
\* follow, for every scaled height.
C13_HeaderDeclaresBitmapSize ==
    Rasterized =>
        /\ Len(logoCommands) >= 8
        /\ SubSeq(logoCommands, 1, 4) = <<29, 118, 48, 0>>
        /\ logoCommands[5] + 256 * logoCommands[6] = RowBytes
        /\ logoCommands[7] + 256 * logoCommands[8] = ScaledH
        /\ Len(BitmapOut) = RowBytes * ScaledH
        /\ BitmapOut = bitmapDataOf(image, ScaledW, ScaledH)

-----------------------------------------------------------------------------
(* Claims about a logo that fails to load, checked under SpecGen *)

\* C14: when the logo is configured and its load fails, printImage resolves
\* with an empty result and the call goes on to its return; the load is
\* asked for once and never again; and the stream returned is a full
\* one, from the initialize command to the feed and the cut, with no raster
\* header and no bitmap byte: it is the stream of the same Invoice without a
\* logo, with the centre command and the blank line of the logo section.
C14_FailedLogoDegradesToNoLogo ==
    /\ []((pc = "resume" /\ image = Broken) => logoCommands = <<>>)
    /\ []((pc = "done" /\ image = Broken) =>
             LET n == Len(output)
             IN  /\ settings.logoUrl # <<>>
                 /\ {i \in 1..n : OccursAt(i, <<GS, 118, 48>>)} = {}
                 /\ SubSeq(output, 1, 6) = <<27, 64, 27, 97, 1, 10>>
                 /\ SubSeq(output, n - 7, n) = <<10, 10, 10, 10, 10, 29, 86, 0>>
                 /\ SubSeq(output, 7, n) = receiptBody(xmlData, settings))
    /\ [][(pc = "awaitLogo" => pc' = "resume")
          /\ (pc' = "awaitLogo" => pc = "start")]_vars

\* C14's case: a stream returned after the logo failed to load
C14_Witness ==
    pc = "done" /\ image = Broken /\ settings.logoUrl # <<>> /\ Len(output) > 100

-----------------------------------------------------------------------------
(* Several calls of generateEscPosCommands in flight at once *)

\* The number of calls in flight
MaxCalls == 2

CallIds == 1..MaxCalls

\* The Invoices of the concurrent calls: two vouchers, and no Invoice
ConcurrentData ==
    {withExtras(parseTallyXML(
        [isString |-> TRUE, entity4 |-> FALSE, wellFormed |-> TRUE,
         hasVoucher |-> TRUE, company |-> r.company,
         voucher |-> VoucherElement(<<83, 97, 108, 101, 115>>, <<>>, <<EntryWidget>>, <<>>, <<>>, r)]),
        NoExtras) :
        r \in {LayoutRest,
               [LayoutRest EXCEPT !.company = <<66, 79, 76, 84, 32, 65, 78, 68, 32, 78, 85, 84>>,
                                  !.narration = <<85, 114, 103, 101, 110, 116>>]}}
    \cup {Null}

\* Their settings: with and without a logo
ConcurrentSettings == {s \in LayoutSettings : s.lineSeparator = <<45>>}

\* The images their logo may load
ConcurrentImages == {i \in Images : i.pattern \in {"black", "escape"}}

\* push with one commands array for all the calls
push_shared(cs, c, bytes) ==
    [k \in DOMAIN cs |-> [cs[k] EXCEPT !.commands = @ \o bytes]]

\* commands.push of call c: commands is a constant of the call, each call
\* has its own array
push(cs, c, bytes) == [cs EXCEPT ![c].commands = @ \o bytes]

\* return new Uint8Array(commands) of call c
returnCommands(cs, c) == [cs EXCEPT ![c].pc = "done", ![c].output = cs[c].commands]

InitConcurrent ==
    /\ xmlString = CHOOSE d \in BadDocs : ~d.isString
    /\ parsed = FALSE
    /\ result = Pending
    /\ xmlData = Null
    /\ settings = NoSettings
    /\ pc = "idle"
    /\ commands = <<>>
    /\ logoCommands = <<>>
    /\ output = <<>>
    /\ ImageIdle
    /\ AppIdle
    /\ calls \in [CallIds ->
                    {[xmlData |-> d, settings |-> s, pc |-> "start",
                      commands |-> <<>>, logoCommands |-> <<>>, output |-> <<>>] :
                        d \in ConcurrentData, s \in ConcurrentSettings}]

\* Call c with no Invoice: an empty array is returned
CallNoData(c) ==
    /\ calls[c].pc = "start" /\ calls[c].xmlData = Null
    /\ calls' = [calls EXCEPT ![c].pc = "done", ![c].output = <<>>]
    /\ UNCHANGED <<parseVars, genVars, imageVars, appVars>>

\* Call c with a logo, up to the await of printImage
CallToLogo(c) ==
    /\ calls[c].pc = "start" /\ calls[c].xmlData # Null
    /\ calls[c].settings.logoUrl # <<>>
    /\ calls' = [push(calls, c, initializePrinter \o logoPrefix)
                    EXCEPT ![c].pc = "awaitLogo"]
    /\ UNCHANGED <<parseVars, genVars, imageVars, appVars>>

\* img.onload of the image of call c
CallOnload(c) ==
    /\ calls[c].pc = "awaitLogo"
    /\ \E img \in ConcurrentImages :
          calls' = [calls EXCEPT ![c].pc = "resume",
                                 ![c].logoCommands = imageCommands(img, LogoWidthPx)]
    /\ UNCHANGED <<parseVars, genVars, imageVars, appVars>>

\* img.onerror of the image of call c
CallOnerror(c) ==
    /\ calls[c].pc = "awaitLogo"
    /\ calls' = [calls EXCEPT ![c].pc = "resume", ![c].logoCommands = <<>>]
    /\ UNCHANGED <<parseVars, genVars, imageVars, appVars>>

\* Call c after the await: the logo, sections 1 to 12, and the return
CallResume(c) ==
    /\ calls[c].pc = "resume"
    /\ calls' = returnCommands(
                    push(calls, c, logoSuffix(calls[c].logoCommands)
                                   \o receiptBody(calls[c].xmlData, calls[c].settings)),
                    c)
    /\ UNCHANGED <<parseVars, genVars, imageVars, appVars>>

\* Call c with no logo: it runs to its return without suspending
CallNoLogo(c) ==
    /\ calls[c].pc = "start" /\ calls[c].xmlData # Null
    /\ calls[c].settings.logoUrl = <<>>
    /\ calls' = returnCommands(
                    push(calls, c, initializePrinter
                                   \o receiptBody(calls[c].xmlData, calls[c].settings)),
                    c)
    /\ UNCHANGED <<parseVars, genVars, imageVars, appVars>>

NextConcurrent ==
    \E c \in CallIds :
        \/ CallNoData(c)
        \/ CallToLogo(c)
        \/ CallOnload(c)
        \/ CallOnerror(c)
        \/ CallResume(c)
        \/ CallNoLogo(c)

SpecConcurrent == InitConcurrent /\ [][NextConcurrent]_vars

-----------------------------------------------------------------------------
(* Claims about concurrent generations, checked under SpecConcurrent *)

\* The stream of one call run alone for an Invoice, its settings and the
\* bytes its logo resolved with
StreamAlone(data, s, logo) ==
    IF data = Null THEN <<>>
    ELSE IF s.logoUrl # <<>>
    THEN <<27, 64>> \o logoPrefix \o logoSuffix(logo) \o receiptBody(data, s)
    ELSE <<27, 64>> \o receiptBody(data, s)

\* C15: whatever the order in which the calls in flight take their steps
\* around the await of the logo, each call that has returned has returned
\* the stream it returns when run alone: no byte of another call's document
\* stands in it.
C15_ConcurrentCallsIndependent ==
    \A c \in DOMAIN calls :
        calls[c].pc = "done" =>
            calls[c].output =
                StreamAlone(calls[c].xmlData, calls[c].settings, calls[c].logoCommands)

\* C15's case: two calls for different Invoices, both with a logo, the first
\* suspended at its await while the second has returned
C15_Witness ==
    /\ DOMAIN calls # {}
    /\ \E c, d \in DOMAIN calls :
          /\ calls[c].xmlData # calls[d].xmlData
          /\ calls[c].xmlData # Null /\ calls[d].xmlData # Null
          /\ calls[c].pc = "resume" /\ calls[d].pc = "done"
          /\ calls[d].settings.logoUrl # <<>>
          /\ calls[d].logoCommands # <<>>

-----------------------------------------------------------------------------
(* The upload of a batch of files: processFiles and its FileReaders *)

\* The most files in a batch
MaxFiles == 3

\* String.prototype.toLowerCase, on the letters of the model's alphabet
toLowerCase(s) == [i \in 1..Len(s) |-> IF s[i] >= 65 /\ s[i] <= 90 THEN s[i] + 32 ELSE s[i]]

\* String.prototype.endsWith
endsWith(s, suffix) ==
    Len(s) >= Len(suffix) /\ SubSeq(s, Len(s) - Len(suffix) + 1, Len(s)) = suffix

\* The text of a file that holds nothing
EmptyText == [length |-> 0]

\* An export that parses: LayoutRest with one Widget
GoodText(r) ==
    [isString |-> TRUE, entity4 |-> FALSE, wellFormed |-> TRUE,
     hasVoucher |-> TRUE, company |-> r.company,
     voucher |-> VoucherElement(<<83, 97, 108, 101, 115>>, <<>>, <<EntryWidget>>, <<>>, <<>>, r)]

File(name, type, readable, content) ==
    [name |-> name, type |-> type, readable |-> readable, content |-> content]

\* The files a batch is made of: two exports that parse, one with no
\* VOUCHER element and one that is not well-formed (their extraction fails),
\* an empty file, a file that cannot be read, and a file that is no XML file
FilePool ==
    {File(<<97, 46, 120, 109, 108>>, <<116, 101, 120, 116, 47, 120, 109, 108>>, TRUE, GoodText(LayoutRest)),
     File(<<66, 46, 88, 77, 76>>, <<>>, TRUE,
          GoodText([LayoutRest EXCEPT !.company = <<66, 79, 76, 84, 32, 65, 78, 68, 32, 78, 85, 84>>])),
     File(<<101, 120, 112, 111, 114, 116>>, <<97, 112, 112, 108, 105, 99, 97, 116, 105, 111, 110, 47, 120, 109, 108>>, TRUE,
          [GoodText(LayoutRest) EXCEPT !.hasVoucher = FALSE]),
     File(<<100, 46, 120, 109, 108>>, <<116, 101, 120, 116, 47, 120, 109, 108>>, TRUE,
          [GoodText(LayoutRest) EXCEPT !.wellFormed = FALSE]),
     File(<<101, 46, 120, 109, 108>>, <<116, 101, 120, 116, 47, 120, 109, 108>>, TRUE, EmptyText),
     File(<<102, 46, 120, 109, 108>>, <<116, 101, 120, 116, 47, 120, 109, 108>>, FALSE, EmptyText),
     File(<<110, 111, 116, 101, 115, 46, 116, 120, 116>>, <<116, 101, 120, 116, 47, 112, 108, 97, 105, 110>>, TRUE, GoodText(LayoutRest))}

\* The batches: up to MaxFiles different files in any order
Batches ==
    {b \in SeqsUpTo(FilePool, MaxFiles) :
        b # <<>> /\ \A i, j \in 1..Len(b) : i # j => b[i] # b[j]}

\* fileArray.filter(file => file.type === 'application/xml' ||
\*                          file.name.toLowerCase().endsWith('.xml'))
RECURSIVE filterXml(_)
filterXml(fileArray) ==
    IF fileArray = <<>> THEN <<>>
    ELSE (IF Head(fileArray).type = <<97, 112, 112, 108, 105, 99, 97, 116, 105, 111, 110, 47, 120, 109, 108>>
             \/ endsWith(toLowerCase(Head(fileArray).name), <<46, 120, 109, 108>>)
          THEN <<Head(fileArray)>> ELSE <<>>)
         \o filterXml(Tail(fileArray))

\* An item that was in the queue before the batch
OldItem ==
    [id |-> 0, fileName |-> <<111, 108, 100, 46, 120, 109, 108>>,
     xmlData |-> parseTallyXML(GoodText([LayoutRest EXCEPT !.number = <<55>>])),
     status |-> "printing"]

InitBatch ==
    /\ xmlString = CHOOSE d \in BadDocs : ~d.isString
    /\ parsed = FALSE
    /\ result = Pending
    /\ xmlData = Null
    /\ settings = NoSettings
    /\ pc = "idle"
    /\ commands = <<>>
    /\ logoCommands = <<>>
    /\ output = <<>>
    /\ ImageIdle
    /\ calls = <<>>
    /\ files \in Batches
    /\ xmlFiles = <<>>
    /\ pendingReads = {}
    /\ processedFiles = <<>>
    /\ completed = 0
    /\ \/ printQueue = <<>> /\ preview = Null
       \/ printQueue = <<OldItem>> /\ preview = OldItem.xmlData
    /\ status = Status("Ready. Please select Tally XML files.", 0)
    /\ errors = {}
    /\ copyCount = Num(1000)
    /\ saved = NoItem
    /\ mounted = FALSE
    /\ PrintIdle

\* processFiles with no XML file among the files
ProcessNoXmlFiles ==
    /\ status.text = "Ready. Please select Tally XML files."
    /\ filterXml(files) = <<>>
    /\ status' = Status("Please drop valid XML files (.xml).", 0)
    /\ UNCHANGED <<parseVars, genVars, imageVars, calls, copyVars, printVars, files,
                   xmlFiles, pendingReads, processedFiles, completed,
                   printQueue, errors, preview>>

\* processFiles: a FileReader is started for each XML file
ProcessFiles ==
    /\ status.text = "Ready. Please select Tally XML files."
    /\ filterXml(files) # <<>>
    /\ xmlFiles' = filterXml(files)
    /\ status' = Status("Processing files...", Len(xmlFiles'))
    /\ processedFiles' = <<>>
    /\ completed' = 0
    /\ pendingReads' = 1..Len(xmlFiles')
    /\ UNCHANGED <<parseVars, genVars, imageVars, calls, copyVars, printVars, files,
                   printQueue, errors, preview>>

\* addToQueue: the new items, after the items of the queue
newItems(prev, processed) ==
    [k \in 1..Len(processed) |->
        [id |-> Len(prev) + k, fileName |-> processed[k].fileName,
         xmlData |-> processed[k].xmlData, status |-> "pending"]]

\* The step of reader.onload that keeps every file, parsed or not
pushParsed_always(processed, file, data) ==
    Append(processed, [fileName |-> file.name, xmlData |-> data])

\* if (data) processedFiles.push({ fileName: file.name, xmlData: data })
pushParsed(processed, file, data) ==
    IF data # Null
    THEN Append(processed, [fileName |-> file.name, xmlData |-> data])
    ELSE processed

\* reader.onload of file i
ReaderOnload(i) ==
    /\ i \in pendingReads /\ xmlFiles[i].readable
    /\ pendingReads' = pendingReads \ {i}
    /\ LET file == xmlFiles[i]
       IN  IF file.content = EmptyText
           THEN /\ errors' = errors \cup {<<"empty or unreadable", file.name>>}
                /\ completed' = completed + 1
                /\ UNCHANGED <<processedFiles, printQueue, preview, status>>
           ELSE /\ processedFiles' =
                      pushParsed(processedFiles, file, parseTallyXML(file.content))
                /\ errors' = IF processedFiles' # processedFiles THEN errors
                             ELSE errors \cup {<<"Failed to parse", file.name>>}
                /\ completed' = completed + 1
                /\ IF completed' = Len(xmlFiles)
                   THEN IF Len(processedFiles') > 0
                        THEN /\ printQueue' = printQueue
                                                \o newItems(printQueue, processedFiles')
                             /\ preview' = IF preview = Null
                                           THEN newItems(printQueue, processedFiles')[1].xmlData
                                           ELSE preview
                             /\ status' = Status("Successfully loaded files. Ready to print.",
                                                 Len(processedFiles'))
                        ELSE /\ status' = Status("No valid XML files could be processed.", 0)
                             /\ UNCHANGED <<printQueue, preview>>
                   ELSE UNCHANGED <<printQueue, preview, status>>
    /\ UNCHANGED <<parseVars, genVars, imageVars, calls, copyVars, printVars, files, xmlFiles>>

\* reader.onerror of file i
ReaderOnerror(i) ==
    /\ i \in pendingReads /\ ~xmlFiles[i].readable
    /\ pendingReads' = pendingReads \ {i}
    /\ errors' = errors \cup {<<"Error reading file", xmlFiles[i].name>>}
    /\ completed' = completed + 1
    /\ UNCHANGED <<parseVars, genVars, imageVars, calls, copyVars, printVars, files, xmlFiles,
                   processedFiles, printQueue, preview, status>>

NextBatch ==
    \/ ProcessNoXmlFiles
    \/ ProcessFiles
    \/ \E i \in 1..MaxFiles : ReaderOnload(i)
    \/ \E i \in 1..MaxFiles : ReaderOnerror(i)

SpecBatch == InitBatch /\ [][NextBatch]_vars

\* Every reader of the batch has fired
BatchRead == xmlFiles # <<>> /\ pendingReads = {}

\* Every file of the batch was read and holds some text
AllReadNonEmpty ==
    \A i \in 1..Len(xmlFiles) : xmlFiles[i].readable /\ xmlFiles[i].content # EmptyText

\* The items of the queue that carry a file name
ItemsNamed(name) == {k \in 1..Len(printQueue) : printQueue[k].fileName = name}

\* C16: when every file of a batch is read and none is empty, whatever the
\* order in which the reads complete, a file whose extraction fails is
\* reported and is not in the queue, and every other file is in the queue
\* once, with status 'pending' and its extracted data; the items that were
\* in the queue stay in front
C16_BatchSkipsFailingFiles ==
    (BatchRead /\ AllReadNonEmpty) =>
        /\ \A i \in 1..Len(xmlFiles) :
              IF parseTallyXML(xmlFiles[i].content) = Null
              THEN /\ <<"Failed to parse", xmlFiles[i].name>> \in errors
                   /\ ItemsNamed(xmlFiles[i].name) = {}
              ELSE /\ Cardinality(ItemsNamed(xmlFiles[i].name)) = 1
                   /\ \A k \in ItemsNamed(xmlFiles[i].name) :
                         /\ printQueue[k].status = "pending"
                         /\ printQueue[k].xmlData = parseTallyXML(xmlFiles[i].content)
        /\ \A k \in 1..Len(printQueue) :
              \/ \E i \in 1..Len(xmlFiles) : printQueue[k].fileName = xmlFiles[i].name
              \/ k = 1 /\ printQueue[k] = OldItem
        /\ \A k, l \in 1..Len(printQueue) : k # l => printQueue[k].id # printQueue[l].id

\* A batch of three files, the one whose extraction fails read between the
\* two others, has been read
C16_Witness ==
    /\ BatchRead /\ AllReadNonEmpty
    /\ Len(xmlFiles) = 3
    /\ parseTallyXML(xmlFiles[1].content) = Null
    /\ Len(processedFiles) = 2
    /\ processedFiles[1].fileName = xmlFiles[3].name
    /\ Len(printQueue) = 3

-----------------------------------------------------------------------------
(* The number of copies: its input, and the settings kept in localStorage *)

\* JavaScript values: a number, a string, a boolean, undefined or null
JsNumber(n) == [t |-> "number", n |-> n, s |-> <<>>, b |-> FALSE]
JsString(s) == [t |-> "string", n |-> NaN, s |-> s, b |-> FALSE]
JsBoolean(b) == [t |-> "boolean", n |-> NaN, s |-> <<>>, b |-> b]
JsUndefined == [t |-> "undefined", n |-> NaN, s |-> <<>>, b |-> FALSE]
JsNull == [t |-> "null", n |-> NaN, s |-> <<>>, b |-> FALSE]

\* String(n) of a number: "NaN", or the sign, the integer digits and the
\* fraction digits without trailing zeros
NumberToString(n) ==
    IF n.nan THEN <<78, 97, 78>>
    ELSE LET a == Abs(n.v)
             f == a % 1000
             d == <<48 + (f \div 100), 48 + ((f \div 10) % 10), 48 + (f % 10)>>
             k == IF f % 10 # 0 THEN 3 ELSE IF f % 100 # 0 THEN 2 ELSE 1
         IN  (IF n.v < 0 THEN <<45>> ELSE <<>>)
             \o IntToStr(a \div 1000)
             \o (IF f = 0 THEN <<>> ELSE <<46>> \o SubSeq(d, 1, k))

\* ToString of a value
JsToString(x) ==
    CASE x.t = "number" -> NumberToString(x.n)
      [] x.t = "string" -> x.s
      [] x.t = "boolean" -> (IF x.b THEN <<116, 114, 117, 101>> ELSE <<102, 97, 108, 115, 101>>)
      [] x.t = "undefined" -> <<117, 110, 100, 101, 102, 105, 110, 101, 100>>
      [] OTHER -> <<110, 117, 108, 108>>

\* ToBoolean of a value
ToBoolean(x) ==
    CASE x.t = "number" -> Truthy(x.n)
      [] x.t = "string" -> x.s # <<>>
      [] x.t = "boolean" -> x.b
      [] OTHER -> FALSE

\* The value of a digit in a radix, or -1
DigitOf(c, radix) ==
    LET d == IF c >= 48 /\ c <= 57 THEN c - 48
             ELSE IF c >= 97 /\ c <= 122 THEN c - 87
             ELSE IF c >= 65 /\ c <= 90 THEN c - 55
             ELSE -1
    IN  IF d < radix THEN d ELSE -1

RECURSIVE TakeRadixDigits(_, _)
TakeRadixDigits(s, radix) ==
    IF s = <<>> \/ DigitOf(Head(s), radix) < 0 THEN <<>>
    ELSE <<Head(s)>> \o TakeRadixDigits(Tail(s), radix)

RECURSIVE RadixValue(_, _)
RadixValue(s, radix) ==
    IF s = <<>> THEN 0
    ELSE RadixValue(SubSeq(s, 1, Len(s) - 1), radix) * radix + DigitOf(s[Len(s)], radix)

\* parseInt(x) with no radix: the string of x, leading white space skipped,
\* an optional sign, an optional 0x or 0X for radix 16, then the digits up
\* to the first character that is none; NaN when there is no digit
parseInt(x) ==
    LET t   == TrimStart(JsToString(x))
        sgn == t # <<>> /\ Head(t) \in {43, 45}
        neg == t # <<>> /\ Head(t) = 45
        u   == IF sgn THEN Tail(t) ELSE t
        hex == Len(u) >= 2 /\ u[1] = 48 /\ u[2] \in {88, 120}
        radix == IF hex THEN 16 ELSE 10
        w   == IF hex THEN SubSeq(u, 3, Len(u)) ELSE u
        ds  == TakeRadixDigits(w, radix)
    IN  IF ds = <<>> THEN NaN
        ELSE Num((IF neg THEN -1 ELSE 1) * RadixValue(ds, radix) * 1000)

\* Math.min and Math.max of two numbers
MathMin(a, b) == IF a.nan \/ b.nan THEN NaN ELSE Num(Min(a.v, b.v))
MathMax(a, b) == IF a.nan \/ b.nan THEN NaN ELSE Num(Max(a.v, b.v))

\* The clamp without the default for a value that is no number
clampCopies_noDefault(x) ==
    MathMax(Num(1000), MathMin(Num(9000), parseInt(x)))

\* Math.max(1, Math.min(9, parseInt(x) || 1))
clampCopies(x) ==
    MathMax(Num(1000),
            MathMin(Num(9000), IF Truthy(parseInt(x)) THEN parseInt(x) ELSE Num(1000)))

\* The item of localStorage: none, a text that is no JSON, or the JSON of a
\* value; of an object, its member copyCount
SavedText == [item |-> TRUE, json |-> FALSE, object |-> FALSE, copyCount |-> JsUndefined]
SavedNull == [item |-> TRUE, json |-> TRUE, object |-> FALSE, copyCount |-> JsUndefined]
SavedObject(x) == [item |-> TRUE, json |-> TRUE, object |-> TRUE, copyCount |-> x]

\* What may be in localStorage when App is mounted
SavedItems ==
    {[item |-> FALSE, json |-> FALSE, object |-> FALSE, copyCount |-> JsUndefined],
     SavedText, SavedNull}
    \cup {SavedObject(x) : x \in
            {JsUndefined, JsNull, JsBoolean(TRUE), JsBoolean(FALSE)}
            \cup {JsNumber(Num(v)) : v \in {0, 1000, 5000, 9000, 10000, 12000,
                                            -3000, 3700, 500, 9999}}
            \cup {JsNumber(NaN)}
            \cup {JsString(s) : s \in {<<>>, <<52>>, <<97, 98, 99>>, <<48>>, <<49, 50>>,
                                       <<45, 50>>, <<32, 55>>, <<48, 120, 49, 70>>, <<50, 46, 53>>}}}

\* What the copies input may hand to onChange as e.target.value
InputValues ==
    {<<>>, <<48>>, <<49>>, <<50>>, <<51>>, <<53>>, <<54>>, <<56>>, <<57>>, <<49, 48>>,
     <<49, 50>>, <<45, 51>>, <<51, 46, 55>>, <<48, 48, 55>>, <<49, 101, 50>>, <<32, 52>>, <<97, 98, 99>>}

\* JSON.stringify({ ...settings, copyCount }): NaN is written as null
stringify(n) == SavedObject(IF n.nan THEN JsNull ELSE JsNumber(n))

\* The load effect: nothing saved or a text that is no JSON leaves copyCount
\* as it is (JSON.parse throws, as does the member of null)
loadCopyCount(item, current) ==
    IF ~item.item \/ ~item.json \/ ~item.object THEN current
    ELSE IF ToBoolean(item.copyCount) THEN clampCopies(item.copyCount)
    ELSE Num(1000)

InitCopies ==
    /\ xmlString = CHOOSE d \in BadDocs : ~d.isString
    /\ parsed = FALSE
    /\ result = Pending
    /\ xmlData = Null
    /\ settings = NoSettings
    /\ pc = "idle"
    /\ commands = <<>>
    /\ logoCommands = <<>>
    /\ output = <<>>
    /\ ImageIdle
    /\ calls = <<>>
    /\ files = <<>>
    /\ xmlFiles = <<>>
    /\ pendingReads = {}
    /\ processedFiles = <<>>
    /\ completed = 0
    /\ printQueue = <<>>
    /\ status = Status("Ready. Please select Tally XML files.", 0)
    /\ errors = {}
    /\ preview = Null
    /\ copyCount = Num(1000)
    /\ saved \in SavedItems
    /\ mounted = FALSE
    /\ PrintIdle

\* App is mounted: the load effect sets copyCount from the saved item, and
\* the save effect writes the copyCount of the first render
Mount ==
    /\ ~mounted
    /\ mounted' = TRUE
    /\ copyCount' = loadCopyCount(saved, copyCount)
    /\ saved' = stringify(copyCount)
    /\ UNCHANGED <<parseVars, genVars, imageVars, calls, batchVars, printVars>>

\* The save effect after copyCount has changed
SaveEffect ==
    /\ mounted
    /\ saved # stringify(copyCount)
    /\ saved' = stringify(copyCount)
    /\ UNCHANGED <<parseVars, genVars, imageVars, calls, batchVars, printVars, copyCount, mounted>>

\* onChange of the copies input
EditCopyCount ==
    /\ mounted
    /\ \E v \in InputValues : copyCount' = clampCopies(JsString(v))
    /\ UNCHANGED <<parseVars, genVars, imageVars, calls, batchVars, printVars, saved, mounted>>

\* The page is left: the state is gone, the saved item stays
Unmount ==
    /\ mounted
    /\ mounted' = FALSE
    /\ copyCount' = Num(1000)
    /\ UNCHANGED <<parseVars, genVars, imageVars, calls, batchVars, printVars, saved>>

NextCopies == Mount \/ SaveEffect \/ EditCopyCount \/ Unmount

SpecCopies == InitCopies /\ [][NextCopies]_vars

\* C17: copyCount is always an integer from 1 to 9, after any edit of the
\* copies input and after loading whatever was saved
C17_CopyCountInRange ==
    /\ ~copyCount.nan
    /\ copyCount.v % 1000 = 0
    /\ copyCount.v >= 1000
    /\ copyCount.v <= 9000

\* With 6 copies saved, the copies input was edited and copyCount is 9
C17_Witness ==
    /\ mounted
    /\ copyCount = Num(9000)
    /\ saved = stringify(Num(6000))

-----------------------------------------------------------------------------
(* Claims about the free-text blocks, checked under SpecLayout *)

\* The number of characters of a run of UTF-8 bytes
CharCount(bytes) ==
    Cardinality({i \in 1..Len(bytes) : bytes[i] < 128 \/ bytes[i] > 191})

\* The first index from i on where the bytes s stand in the returned stream
FirstAt(i, s) ==
    CHOOSE j \in i..Len(output) : OccursAt(j, s) /\ \A k \in i..(j - 1) : ~OccursAt(k, s)

\* The lines printed from index i up to the first place where the bytes
\* `stop`, which begin with the line feed of the last line, stand
LinesUpTo(i, stop) == LinesIn(SubSeq(output, i, FirstAt(i, stop)))

RECURSIVE Flatten(_)
Flatten(lines) == IF lines = <<>> THEN <<>> ELSE Head(lines) \o Flatten(Tail(lines))

\* A text without its line feeds
WithoutLF(text) == Flatten([i \in 1..Len(text) |-> IF text[i] = LF THEN <<>> ELSE <<text[i]>>])

\* The lines printed for the party address: those after the heading
\* "PARTY DETAILS:" and the party name, up to the GSTIN line or the empty
\* line that ends the block
AddressLinesOut ==
    LET p == CHOOSE i \in LinesOf(<<80, 65, 82, 84, 89, 32, 68, 69, 84, 65, 73, 76, 83, 58>>) : TRUE
        body == Tail(LinesUpTo(p + 18, <<LF, LF>>))
    IN  IF xmlData.party.gstin # <<>> THEN SubSeq(body, 1, Len(body) - 1) ELSE body

\* The lines printed for the narration: those after the heading "Remarks:"
\* up to the separator line
NarrationLinesOut ==
    LET q == CHOOSE i \in LinesOf(<<82, 101, 109, 97, 114, 107, 115, 58>>) : TRUE
    IN  LinesUpTo(q + 15, <<LF>> \o repeat(separatorOf(settings), 42) \o <<LF>>)

\* The lines printed for the terms: those after their heading up to the
\* empty line that ends the block
TermsLinesOut ==
    LET r == CHOOSE i \in LinesOf(<<84, 101, 114, 109, 115, 32, 38, 32, 67, 111, 110, 100, 105, 116, 105, 111, 110, 115, 58>>) : TRUE
    IN  LinesUpTo(r + 23, <<LF, LF>>)

\* The lines are the text in chunks of 42 characters: each but the last has
\* 42 characters, the last at most 42, and in order they give the text
ChunksOf42(lines, text) ==
    /\ \A k \in 1..Len(lines) : CharCount(lines[k]) <= 42
    /\ \A k \in 1..(Len(lines) - 1) : CharCount(lines[k]) = 42
    /\ Flatten(lines) = encodeText(text)

\* C18: every line printed for the party address, the narration and the
\* terms and conditions has at most 42 characters; a longer text is printed
\* in consecutive chunks of 42 characters that together give the text.
C18_FreeTextWrappedTo42 ==
    Generated =>
        /\ (xmlData.party.name # <<>> /\ xmlData.party.address # <<>>) =>
              /\ \A k \in 1..Len(AddressLinesOut) : CharCount(AddressLinesOut[k]) <= 42
              /\ Flatten(AddressLinesOut) = encodeText(WithoutLF(xmlData.party.address))
        /\ xmlData.narration # <<>> => ChunksOf42(NarrationLinesOut, xmlData.narration)
        /\ xmlData.termsAndConditions # <<>> =>
              ChunksOf42(TermsLinesOut, xmlData.termsAndConditions)

-----------------------------------------------------------------------------
(* Claims about the separator lines, checked under SpecLayout *)

\* Where a separator line is printed in the returned stream
SeparatorsOut == LinesOf(repeat(separatorOf(settings), 42))

\* Where the first and the last of the places of a non-empty set are
FirstOf(S) == CHOOSE i \in S : \A j \in S : i <= j
LastOf(S) == CHOOSE i \in S : \A j \in S : j <= i

\* C19: a receipt has a separator line (42 times the configured separator
\* character, or '-' when none is configured) before and after the heading,
\* after the order details, before and after the header of the items table,
\* at the end of the items list, before and after the remarks when there is
\* a narration, and after the Total line of the totals, also when there is
\* neither a narration nor terms and conditions.
C19_SeparatorsBracketSections ==
    Generated =>
        LET S == SeparatorsOut
            heading == FirstOf(LinesOf(xmlData.heading))
            order == FirstOf(LabelsOf(<<86, 111, 117, 99, 104, 101, 114, 32, 78, 111, 58, 32>>))
            entered == FirstOf(LabelsOf(<<69, 110, 116, 101, 114, 101, 100, 32, 66, 121, 58, 32>>))
            header == FirstOf(LabelsOf(<<83, 46, 78, 111>>))
            qtys == {i \in 1..Len(output) : OccursAt(i, <<81, 116, 121, 58, 32>>)}
            subTotal == FirstOf(LabelsOf(<<83, 117, 98, 32, 84, 111, 116, 97, 108, 58, 32>>))
            total == FirstOf(LabelsOf(<<84, 79, 84, 65, 76, 58, 32, 82, 115, 46, 32>>))
            remarks == LinesOf(<<82, 101, 109, 97, 114, 107, 115, 58>>)
        IN  /\ \E s \in S : s < heading /\ heading - s <= 49
            /\ \E s \in S : heading < s /\ s < order
            /\ Cardinality({s \in S : entered < s /\ s < header}) >= 2
            /\ \E s \in S : header < s /\ s < FirstOf(qtys)
            /\ \E s \in S : LastOf(qtys) < s /\ s < subTotal
            /\ xmlData.narration # <<>> =>
                  /\ remarks # {}
                  /\ \E s \in S : total < s /\ s < FirstOf(remarks)
                  /\ \E s \in S : FirstOf(remarks) < s
            /\ \E s \in S : total < s

-----------------------------------------------------------------------------
(* Claims about the item rows, checked under SpecLayout *)

\* Where the first row of the item numbered sNo starts: the sequence number
\* padded to 3 columns and one space
RowOf(sNo) ==
    FirstOf(LabelsOf(IntToStr(sNo) \o repeat(<<32>>, 3 - Len(IntToStr(sNo))) \o <<32>>))

\* The line feed that ends the line holding index i
LineEndOf(i) == FirstAt(i, <<LF>>)

\* The lines between the first row of the item numbered sNo, and the
\* command after it, and the line that holds its quantity
ContinuationLinesOut(sNo) ==
    LET rowEnd == LineEndOf(RowOf(sNo))
        qty == FirstAt(rowEnd, <<81, 116, 121, 58, 32>>)
        qtyLine == 1 + LastOf({j \in rowEnd..qty : output[j] = LF})
    IN  LinesIn(SubSeq(output, rowEnd + 4, qtyLine - 1))

\* C20: the first row of every item is emphasized and is the sequence
\* number padded to 3 columns, one space, and the first 38 characters of the
\* name; the rest of a longer name follows on lines that are not
\* emphasized, each 4 spaces and at most 38 characters of the name; the
\* name parts of these lines, in order, are the whole name.
C20_ItemNameRows ==
    Generated =>
        \A k \in 1..Len(xmlData.items) :
            LET name == xmlData.items[k].name
                sNo == xmlData.items[k].sNo
                row == RowOf(sNo)
                rowEnd == LineEndOf(row)
                first == SubSeq(output, row + 4, rowEnd - 1)
                conts == ContinuationLinesOut(sNo)
                parts == [c \in 1..Len(conts) |-> SubSeq(conts[c], 5, Len(conts[c]))]
            IN  /\ LabelsOf(IntToStr(sNo) \o repeat(<<32>>, 3 - Len(IntToStr(sNo))) \o <<32>>) # {}
                /\ EmphasizedAt(row)
                /\ first = encodeText(SubSeq(name, 1, Min(38, Len(name))))
                /\ OccursAt(rowEnd + 1, <<ESC, 69, 0>>)
                /\ \A j \in (rowEnd + 4)..FirstAt(rowEnd, <<81, 116, 121, 58, 32>>) : output[j] # ESC
                /\ Len(name) <= 38 => conts = <<>>
                /\ Len(name) > 38 => conts # <<>>
                /\ \A c \in 1..Len(conts) :
                      /\ Len(conts[c]) > 4
                      /\ SubSeq(conts[c], 1, 4) = <<32, 32, 32, 32>>
                      /\ CharCount(parts[c]) <= 38
                /\ first \o Flatten(parts) = encodeText(name)

\* A receipt with an item whose name of 115 characters fills three rows
C20_Witness ==
    /\ Generated
    /\ \E k \in 1..Len(xmlData.items) :
          /\ Len(xmlData.items[k].name) = 115
          /\ Len(ContinuationLinesOut(xmlData.items[k].sNo)) = 3
          /\ ContinuationLinesOut(xmlData.items[k].sNo)[3]
                = <<32, 32, 32, 32>> \o SubSeq(xmlData.items[k].name, 115, 115)

-----------------------------------------------------------------------------
(* Claims about the quantity line of an item, checked under SpecLayout *)

\* The line of the returned stream that holds the quantity of the item
\* numbered sNo: the first line with "Qty: " after the first row of the item
\* and the three bytes of the command that follows that row
QtyLineOut(sNo) ==
    LET rowEnd == LineEndOf(RowOf(sNo))
        qty == FirstAt(rowEnd, <<81, 116, 121, 58, 32>>)
        start == Max(rowEnd + 4, 1 + LastOf({j \in rowEnd..qty : output[j] = LF}))
    IN  SubSeq(output, start, LineEndOf(start) - 1)

\* The first index where the characters sub stand in s, 0 when nowhere
IndexIn(s, sub) ==
    LET at == {i \in 1..(Len(s) - Len(sub) + 1) : SubSeq(s, i, i + Len(sub) - 1) = sub}
    IN  IF at = {} THEN 0 ELSE FirstOf(at)

\* A decimal with two fraction digits: an optional sign, digits, a point and
\* two digits
TwoFractionDigits(s) ==
    LET u == IF s # <<>> /\ Head(s) = 45 THEN Tail(s) ELSE s
    IN  /\ Len(u) >= 4
        /\ u[Len(u) - 2] = 46
        /\ \A i \in 1..Len(u) : i # Len(u) - 2 => IsDigit(u[i])

\* The printed decimal d is the value of the item's text x, to the cent
SameValue(d, x) ==
    /\ ~parseFloat(x).nan
    /\ Abs(parseFloat(d).v - parseFloat(x).v) <= 5

\* C21: the second row of every item (with numbers for its quantity, rate
\* and amount) is one line: the text 'Qty: q @ Rs. r = Rs. a', each value
\* with 2 fraction digits, after as many spaces as bring the line to
\* max(42, length of the text) characters, so the text ends at column 42
\* when it fits and is printed whole with no padding when it is longer.
C21_QtyLineRightAligned ==
    Generated =>
        \A k \in 1..Len(xmlData.items) :
            LET item == xmlData.items[k]
                line == QtyLineOut(item.sNo)
                text == TrimStart(line)
                at == IndexIn(text, <<32, 64, 32, 82, 115, 46, 32>>)
                eq == IndexIn(text, <<32, 61, 32, 82, 115, 46, 32>>)
                qty == SubSeq(text, 6, at - 1)
                rate == SubSeq(text, at + 7, eq - 1)
                amount == SubSeq(text, eq + 7, Len(text))
            IN  /\ SubSeq(text, 1, 5) = <<81, 116, 121, 58, 32>>
                /\ at > 0 /\ eq > at
                /\ TwoFractionDigits(qty) /\ SameValue(qty, item.qty)
                /\ TwoFractionDigits(rate) /\ SameValue(rate, item.rate)
                /\ TwoFractionDigits(amount) /\ SameValue(amount, item.amount)
                /\ Len(line) = Max(42, Len(text))
                /\ \A i \in 1..(Len(line) - Len(text)) : line[i] = 32
                /\ OccursAt(FirstAt(LineEndOf(RowOf(item.sNo)), <<81, 116, 121, 58, 32>>) + Len(text),
                            <<LF, LF>>)

\* A receipt with a quantity line of 49 characters, printed whole
C21_Witness ==
    /\ Generated
    /\ \E k \in 1..Len(xmlData.items) :
          /\ xmlData.items[k].amount = <<49, 50, 51, 52, 53, 54, 55, 46, 48, 48>>
          /\ QtyLineOut(xmlData.items[k].sNo)
                = <<81, 116, 121, 58, 32, 49, 50, 51, 52, 53, 54, 55, 46, 48, 48, 32, 64, 32, 82, 115, 46, 32, 49, 50, 51, 52, 53, 54, 55, 46, 48, 48, 32, 61, 32, 82, 115, 46, 32, 49, 50, 51, 52, 53, 54, 55, 46, 48, 48>>

-----------------------------------------------------------------------------
(* Claims about the encoding of text lines, checked under SpecLayout *)

\* The bytes of the rupee sign in UTF-8
RupeeBytes == <<226, 130, 185>>

\* A text with 'Rs. ' in the place of each rupee sign
RECURSIVE WithRs(_)
WithRs(text) ==
    IF text = <<>> THEN <<>>
    ELSE (IF Head(text) = 8377 THEN <<82, 115, 46, 32>> ELSE <<Head(text)>>) \o WithRs(Tail(text))

\* The number of line feeds in a run of bytes
LineFeedsIn(bytes) == Cardinality({i \in 1..Len(bytes) : bytes[i] = LF})

\* The bytes of the returned stream between the heading "Remarks:", with the
\* two commands after it, and the separator line that ends the remarks
NarrationBytesOut ==
    LET q == CHOOSE i \in LinesOf(<<82, 101, 109, 97, 114, 107, 115, 58>>) : TRUE
    IN  SubSeq(output, q + 15,
               FirstAt(q + 15, <<LF>> \o repeat(separatorOf(settings), 42) \o <<LF>>))

\* C22: no text of the returned stream holds the rupee sign: each rupee sign
\* of a printed text is replaced by 'Rs. ' before the text is encoded; and
\* each printed line is followed by exactly one line feed (seen on the
\* narration: its lines are the chunks of the text with 'Rs. ' for each
\* rupee sign, and the block holds one line feed for each chunk).
C22_RupeeReplacedOneLineFeed ==
    Generated =>
        /\ \A i \in 1..Len(output) : i \in RasterRegion \/ ~OccursAt(i, RupeeBytes)
        /\ xmlData.narration # <<>> =>
              /\ Flatten(LinesIn(NarrationBytesOut)) = encodeVerbatim(WithRs(xmlData.narration))
              /\ LineFeedsIn(NarrationBytesOut) = (Len(xmlData.narration) + 41) \div 42
              /\ \A k \in 1..Len(LinesIn(NarrationBytesOut)) :
                    LinesIn(NarrationBytesOut)[k] # <<>>

\* A receipt with a narration that holds two rupee signs
C22_Witness ==
    /\ Generated
    /\ Cardinality({i \in 1..Len(xmlData.narration) : xmlData.narration[i] = 8377}) = 2
    /\ LinesIn(NarrationBytesOut) = <<<<82, 115, 46, 32, 53, 32, 97, 110, 100, 32, 82, 115, 46, 32, 55, 32, 112, 97, 105, 100>>>>

-----------------------------------------------------------------------------
(* Claims about the emphasis of the order details, checked under SpecGen *)

\* The emphasis command ESC E n for a flag
EmphasisCommand(flag) == <<ESC, 69, IF flag THEN 1 ELSE 0>>

\* The row of the order details with this label has the command for
\* labelBold before the label and the command for valueBold between the
\* label and the value, which ends the line
OrderRowOut(label, value) ==
    /\ LabelsOf(label) # {}
    /\ LET i == FirstOf(LabelsOf(label))
       IN  /\ OccursAt(i - 3, EmphasisCommand(settings.sectionStyles.orderInfo.labelBold))
           /\ OccursAt(i + Len(label),
                       EmphasisCommand(settings.sectionStyles.orderInfo.valueBold)
                       \o encodeText(value) \o <<LF>>)

\* C23: each of the three rows of the order details (voucher number, date,
\* user) has an emphasis command equal to labelBold before its label and one
\* equal to valueBold before its value; after the third row emphasis is
\* switched off, whatever the two flags are.
C23_OrderInfoEmphasis ==
    Generated =>
        /\ OrderRowOut(<<86, 111, 117, 99, 104, 101, 114, 32, 78, 111, 58, 32>>, xmlData.order.number)
        /\ OrderRowOut(<<68, 97, 116, 101, 58, 32>>, xmlData.order.date)
        /\ OrderRowOut(<<69, 110, 116, 101, 114, 101, 100, 32, 66, 121, 58, 32>>, xmlData.order.user)
        /\ LabelsOf(<<69, 110, 116, 101, 114, 101, 100, 32, 66, 121, 58, 32>>) # {}
        /\ LET i == FirstOf(LabelsOf(<<69, 110, 116, 101, 114, 101, 100, 32, 66, 121, 58, 32>>))
               end == i + 12 + 3 + Len(encodeText(xmlData.order.user)) + 1
           IN  /\ OccursAt(end, EmphasisCommand(FALSE)
                                \o repeat(separatorOf(settings), 42) \o <<LF>>)
               /\ ~EmphasizedAt(end + 3)

\* A receipt printed with the labels emphasized and the values not
C23_Witness ==
    /\ Generated
    /\ settings.sectionStyles.orderInfo.labelBold
    /\ ~settings.sectionStyles.orderInfo.valueBold
    /\ xmlData.order.user # <<>>
    /\ OrderRowOut(<<69, 110, 116, 101, 114, 101, 100, 32, 66, 121, 58, 32>>, xmlData.order.user)

-----------------------------------------------------------------------------
(* The failed logo against no logo, checked under SpecGen *)

\* The stream of the Invoice under the same settings with no logo configured
StreamWithNoLogo == StreamAlone(xmlData, [settings EXCEPT !.logoUrl = <<>>], <<>>)

\* C24: for every Invoice and settings, the stream returned when the load
\* of the configured logo has failed is, byte for byte, the stream returned
\* for the same Invoice and settings with no logo configured.
C24_FailedLogoSameAsNoLogo ==
    (Generated /\ settings.logoUrl # <<>> /\ image = Broken)
        => output = StreamWithNoLogo

\* What the stream is when the load has failed: the centre command and a
\* line feed stand between the initialize command and the stream's rest
C24_FailedLogoAddsBlankLine ==
    (Generated /\ settings.logoUrl # <<>> /\ image = Broken) =>
        /\ Len(output) = Len(StreamWithNoLogo) + 4
        /\ SubSeq(output, 1, 6) = <<ESC, 64, ESC, 97, 1, LF>>
        /\ SubSeq(output, 7, Len(output)) = SubSeq(StreamWithNoLogo, 3, Len(StreamWithNoLogo))

-----------------------------------------------------------------------------
(* Printing the queue: handleWebUSBPrint and removeFromQueue *)

\* The most items in the queue when printing starts
MaxQueue == 2

\* The most calls of handleWebUSBPrint that are followed
MaxRuns == 2

\* The numbers of copies printing starts with
CopyCounts == {1, 2, 3}

\* A queue item: the Invoice of the voucher numbered id, from the file id.xml
QueueItem(id, st) ==
    [id |-> id, fileName |-> IntToStr(id) \o <<46, 120, 109, 108>>,
     xmlData |-> parseTallyXML(GoodText([LayoutRest EXCEPT !.number = IntToStr(id)])),
     status |-> st]

\* The queues printing starts with: items numbered in order, each pending,
\* or completed with its removal still to come
PrintQueues ==
    UNION {{[k \in 1..n |-> QueueItem(k, sts[k])] :
                sts \in [1..n -> {"pending", "completed"}]} : n \in 1..MaxQueue}

\* prev.map(item => item.id === id ? { ...item, status: st } : item)
withStatus(queue, id, st) ==
    [k \in 1..Len(queue) |->
        IF queue[k].id = id THEN [queue[k] EXCEPT !.status = st] ELSE queue[k]]

\* prev.map(item => item.status === 'printing' ? { ...item, status: 'pending' } : item)
printingToPending(queue) ==
    [k \in 1..Len(queue) |->
        IF queue[k].status = "printing" THEN [queue[k] EXCEPT !.status = "pending"]
        ELSE queue[k]]

\* handleWebUSBPrint taking every item of the queue
pendingItemsOf_all(queue) == queue

\* printQueue.filter(item => item.status === 'pending')
pendingItemsOf(queue) == SelectSeq(queue, LAMBDA item : item.status = "pending")

\* prev.filter(item => item.id !== id)
withoutId(queue, id) == SelectSeq(queue, LAMBDA item : item.id # id)

\* A call of handleWebUSBPrint has returned
Finished(run) == run.pc \in {"nothing", "unsupported", "done", "failed"}

\* The item a call is printing
itemOf(run) == run.pendingItems[run.idx]

InitPrintWith(limit, counts) ==
    /\ xmlString = CHOOSE d \in BadDocs : ~d.isString
    /\ parsed = FALSE
    /\ result = Pending
    /\ xmlData = Null
    /\ settings = NoSettings
    /\ pc = "idle"
    /\ commands = <<>>
    /\ logoCommands = <<>>
    /\ output = <<>>
    /\ ImageIdle
    /\ calls = <<>>
    /\ files = <<>>
    /\ xmlFiles = <<>>
    /\ pendingReads = {}
    /\ processedFiles = <<>>
    /\ completed = 0
    /\ errors = {}
    /\ saved = NoItem
    /\ mounted = TRUE
    /\ printQueue \in PrintQueues
    /\ preview \in {printQueue[k].xmlData : k \in 1..Len(printQueue)}
    /\ status = Status("Ready. Please select Tally XML files.", 0)
    /\ copyCount \in {Num(1000 * n) : n \in counts}
    /\ runs = <<>>
    /\ runLimit = limit
    /\ currentPrintingId = <<>>
    /\ transfers = <<>>
    /\ generations = <<>>
    /\ removals = {[id |-> printQueue[k].id, xmlData |-> preview] :
                      k \in {j \in 1..Len(printQueue) : printQueue[j].status = "completed"}}

\* The state outside the print run and the queue
notPrintVars == <<parseVars, genVars, imageVars, calls, files, xmlFiles, pendingReads,
                  processedFiles, completed, errors, saved, mounted, runLimit>>

\* The loop body up to the await of generateEscPosCommands, for the item at
\* index k of the call r
beginItem(r, k) ==
    /\ currentPrintingId' = <<runs[r].pendingItems[k].id>>
    /\ printQueue' = withStatus(printQueue, runs[r].pendingItems[k].id, "printing")
    /\ status' = Status("Generating print commands", runs[r].pendingItems[k].id)
    /\ runs' = [runs EXCEPT ![r].pc = "generating", ![r].idx = k, ![r].copy = 0]

\* handleWebUSBPrint is called (the button, or Ctrl+P / Cmd+P), up to its
\* first await or its early return
handleWebUSBPrint ==
    /\ Len(runs) < runLimit
    /\ \E usb \in BOOLEAN :
          LET pendingItems == pendingItemsOf(printQueue)
              run == [pc |-> IF pendingItems = <<>> THEN "nothing"
                             ELSE IF ~usb THEN "unsupported" ELSE "requesting",
                      pendingItems |-> pendingItems, idx |-> 0, copy |-> 0,
                      copyCount |-> copyCount.v \div 1000,
                      xmlData |-> preview,
                      queue |-> printQueue,
                      during |-> {q \in 1..Len(runs) : ~Finished(runs[q])}]
          IN  /\ runs' = Append(runs, run)
              /\ status' = IF run.pc = "requesting"
                           THEN Status("Requesting USB device...", 0) ELSE status
    /\ UNCHANGED <<notPrintVars, printQueue, preview, copyCount, currentPrintingId,
                   transfers, generations, removals>>

\* navigator.usb.requestDevice resolves
RequestResolved(r) ==
    /\ runs[r].pc = "requesting"
    /\ runs' = [runs EXCEPT ![r].pc = "opening"]
    /\ UNCHANGED <<notPrintVars, printQueue, preview, copyCount, currentPrintingId,
                   status, transfers, generations, removals>>

\* open, selectConfiguration and claimInterface resolve and the device has
\* an OUT endpoint: the first item is begun
OpenResolved(r) ==
    /\ runs[r].pc = "opening"
    /\ beginItem(r, 1)
    /\ UNCHANGED <<notPrintVars, preview, copyCount, transfers, generations, removals>>

\* generateEscPosCommands resolves: the first transferOut is called
GenerateResolved(r) ==
    /\ runs[r].pc = "generating"
    /\ generations' = Append(generations, <<r, itemOf(runs[r]).id>>)
    /\ runs' = [runs EXCEPT ![r].pc = "transferring", ![r].copy = 1]
    /\ status' = Status("Printing copy", 1)
    /\ UNCHANGED <<notPrintVars, printQueue, preview, copyCount, currentPrintingId,
                   transfers, removals>>

\* removeFromQueue, up to the timer: the item is marked completed
removeFromQueue(queue, id) == withStatus(queue, id, "completed")

\* transferOut resolves: the next copy is sent, or the item leaves the queue
\* (removeFromQueue) and the delay between prints starts
TransferResolved(r) ==
    /\ runs[r].pc = "transferring"
    /\ transfers' = Append(transfers, <<r, itemOf(runs[r]).id>>)
    /\ IF runs[r].copy < runs[r].copyCount
       THEN /\ runs' = [runs EXCEPT ![r].copy = @ + 1]
            /\ status' = Status("Printing copy", runs[r].copy + 1)
            /\ UNCHANGED <<printQueue, removals>>
       ELSE /\ runs' = [runs EXCEPT ![r].pc = "delay"]
            /\ printQueue' = removeFromQueue(printQueue, itemOf(runs[r]).id)
            /\ removals' = removals \cup {[id |-> itemOf(runs[r]).id,
                                           xmlData |-> runs[r].xmlData]}
            /\ UNCHANGED status
    /\ UNCHANGED <<notPrintVars, preview, copyCount, currentPrintingId, generations>>

\* The delay between prints is over: the next item is begun, or the call
\* ends with success
DelayResolved(r) ==
    /\ runs[r].pc = "delay"
    /\ IF runs[r].idx < Len(runs[r].pendingItems)
       THEN beginItem(r, runs[r].idx + 1)
       ELSE /\ currentPrintingId' = <<>>
            /\ status' = Status("Printed documents successfully.",
                                Len(runs[r].pendingItems))
            /\ runs' = [runs EXCEPT ![r].pc = "done"]
            /\ UNCHANGED printQueue
    /\ UNCHANGED <<notPrintVars, preview, copyCount, transfers, generations, removals>>

\* The catch block that leaves the items as they are
RunFails_keepsPrinting(r) ==
    /\ runs[r].pc \in {"requesting", "opening", "generating", "transferring"}
    /\ currentPrintingId' = <<>>
    /\ status' = Status("Printing failed", 0)
    /\ runs' = [runs EXCEPT ![r].pc = "failed"]
    /\ UNCHANGED <<notPrintVars, printQueue, preview, copyCount, transfers,
                   generations, removals>>

\* An awaited step rejects (the device request, the open, the generation or
\* a transfer): the catch block
RunFails(r) ==
    /\ runs[r].pc \in {"requesting", "opening", "generating", "transferring"}
    /\ currentPrintingId' = <<>>
    /\ printQueue' = printingToPending(printQueue)
    /\ status' = Status("Printing failed", 0)
    /\ runs' = [runs EXCEPT ![r].pc = "failed"]
    /\ UNCHANGED <<notPrintVars, preview, copyCount, transfers, generations, removals>>

\* The timer of removeFromQueue fires: the item leaves the queue, and the
\* preview moves when it showed that item
RemovalTimer ==
    \E t \in removals :
        LET filtered == withoutId(printQueue, t.id)
            shown == \E k \in 1..Len(printQueue) :
                        printQueue[k].id = t.id /\ printQueue[k].xmlData = t.xmlData
        IN  /\ removals' = removals \ {t}
            /\ printQueue' = filtered
            /\ preview' = IF Len(filtered) > 0 /\ t.xmlData # Null /\ shown
                          THEN filtered[1].xmlData
                          ELSE IF Len(filtered) = 0 THEN Null ELSE preview
            /\ UNCHANGED <<notPrintVars, copyCount, runs, currentPrintingId, status,
                           transfers, generations>>

\* onChange of the copies input while the queue is printed
CopiesChanged ==
    /\ runs # <<>>
    /\ \E n \in CopyCounts : copyCount' = clampCopies(JsString(IntToStr(n)))
    /\ UNCHANGED <<notPrintVars, printQueue, preview, runs, currentPrintingId, status,
                   transfers, generations, removals>>

NextRun ==
    \/ handleWebUSBPrint
    \/ \E r \in 1..MaxRuns : r <= Len(runs) /\ RequestResolved(r)
    \/ \E r \in 1..MaxRuns : r <= Len(runs) /\ OpenResolved(r)
    \/ \E r \in 1..MaxRuns : r <= Len(runs) /\ GenerateResolved(r)
    \/ \E r \in 1..MaxRuns : r <= Len(runs) /\ TransferResolved(r)
    \/ \E r \in 1..MaxRuns : r <= Len(runs) /\ DelayResolved(r)
    \/ \E r \in 1..MaxRuns : r <= Len(runs) /\ RunFails(r)
    \/ RemovalTimer

\* One call of handleWebUSBPrint, while the number of copies may be edited
InitPrint == InitPrintWith(1, CopyCounts)
NextPrint == NextRun \/ CopiesChanged
SpecPrint == InitPrint /\ [][NextPrint]_vars

\* Calls of handleWebUSBPrint that may overlap, for one or two copies
InitReprint == InitPrintWith(MaxRuns, {1, 2})
SpecReprint == InitReprint /\ [][NextRun]_vars

-----------------------------------------------------------------------------
(* Claims about one print run, checked under SpecPrint *)

\* The ids of the items that were pending when the call r started, in the
\* order of the queue
RECURSIVE PendingIds(_)
PendingIds(queue) ==
    IF queue = <<>> THEN <<>>
    ELSE (IF Head(queue).status = "pending" THEN <<Head(queue).id>> ELSE <<>>)
         \o PendingIds(Tail(queue))

\* Each id of a list n times in a row, as the entries of the call r
Repeated(r, ids, n) == [j \in 1..(n * Len(ids)) |-> <<r, ids[((j - 1) \div n) + 1]>>]

\* s is the start of t
IsPrefix(s, t) == Len(s) <= Len(t) /\ SubSeq(t, 1, Len(s)) = s

\* C25: in a print run that meets no error, the items that were pending
\* when the run started are taken in queue order; for each the stream is
\* generated once and then transferred exactly as many times as the number
\* of copies the run started with, before the next item is begun; no other
\* item is transferred.
C25_EachPendingItemPrintedCopyCountTimes ==
    (runs # <<>> /\ runs[1].pc # "failed") =>
        LET ids == PendingIds(runs[1].queue)
            n == runs[1].copyCount
        IN  /\ IsPrefix(generations, Repeated(1, ids, 1))
            /\ IsPrefix(transfers, Repeated(1, ids, n))
            /\ (Len(generations) - 1) * n <= Len(transfers)
            /\ Len(transfers) <= Len(generations) * n
            /\ runs[1].pc = "done" =>
                  /\ generations = Repeated(1, ids, 1)
                  /\ transfers = Repeated(1, ids, n)
            /\ runs[1].pc = "nothing" <=> ids = <<>>

\* A run of two pending items with three copies each has ended
C25_Witness ==
    /\ runs # <<>> /\ runs[1].pc = "done"
    /\ runs[1].copyCount = 3
    /\ transfers = <<<<1, 1>>, <<1, 1>>, <<1, 1>>, <<1, 2>>, <<1, 2>>, <<1, 2>>>>
    /\ generations = <<<<1, 1>>, <<1, 2>>>>

\* The files of the batch whose text was read and extracted
ParsedFiles ==
    {i \in 1..Len(xmlFiles) :
        /\ xmlFiles[i].readable
        /\ xmlFiles[i].content # EmptyText
        /\ parseTallyXML(xmlFiles[i].content) # Null}

\* C26: once every file of a batch has finished reading (extracted, failed
\* to extract, empty, or unreadable), every file that was extracted is in
\* the queue and the status no longer says that files are being processed,
\* whatever the order in which the reads complete.
C26_BatchAlwaysCompletes ==
    BatchRead =>
        /\ \A i \in ParsedFiles : ItemsNamed(xmlFiles[i].name) # {}
        /\ status.text # "Processing files..."

\* The same when the last read to complete is of a file that holds text
\* and could be read: lines 242-250 then run
C26_CompletesWhenLastReadHasText ==
    (BatchRead /\ completed = Len(xmlFiles) /\ status.text # "Processing files...") =>
        \A i \in ParsedFiles : ItemsNamed(xmlFiles[i].name) # {}

\* Every read has completed, a file was extracted, and the queue is empty
\* with the status still saying that files are being processed
C26_ParsedFileLost ==
    /\ BatchRead
    /\ ParsedFiles # {}
    /\ processedFiles # <<>>
    /\ printQueue = <<>>
    /\ status.text = "Processing files..."

-----------------------------------------------------------------------------
(* Claims about the wrapping loops, checked under SpecLayout *)

\* A run of character codes or bytes without its spaces
RECURSIVE NoSpaces(_)
NoSpaces(s) ==
    IF s = <<>> THEN <<>>
    ELSE (IF Head(s) = 32 THEN <<>> ELSE <<Head(s)>>) \o NoSpaces(Tail(s))

\* The texts a loop can be left with: the ends of the text that are not empty
Remainders(text) == {substringFrom(text, k) : k \in 0..(Len(text) - 1)}

\* One iteration of the company-name loop on r shortens r, and the loop
\* goes on with what the iteration left
CompanyLoopShrinks(r) ==
    /\ Len(companyNameRest(r)) < Len(r)
    /\ Tail(companyNameLines(r)) = companyNameLines(companyNameRest(r))

\* The same for a loop that cuts chunks of `width` characters
ChunkLoopShrinks(r, width) ==
    /\ Len(hardWrapRest(r, width)) < Len(r)
    /\ Tail(hardWrap(r, width)) = hardWrap(hardWrapRest(r, width), width)

\* The lines hold, in order, the characters of the text that are no space
\* (after the rupee sign is written 'Rs. ')
SameCharacters(lines, text) == NoSpaces(Flatten(lines)) = NoSpaces(encodeText(text))

\* C27: every wrapping loop (company name, item-name continuation,
\* narration, terms) ends: whatever is left of the text, one iteration
\* removes at least one character; and the lines the loop prints hold every
\* character of the text that is no space once, in the order of the text.
C27_WrappingLoopsEndAndKeepText ==
    Generated =>
        /\ \A r \in Remainders(xmlData.company.name) : CompanyLoopShrinks(r)
        /\ \A r \in Remainders(xmlData.narration) : ChunkLoopShrinks(r, TOTAL_RECEIPT_WIDTH)
        /\ \A r \in Remainders(xmlData.termsAndConditions) :
              ChunkLoopShrinks(r, TOTAL_RECEIPT_WIDTH)
        /\ \A k \in 1..Len(xmlData.items) :
              \A r \in Remainders(substringFrom(xmlData.items[k].name, ITEM_NAME_COL_WIDTH)) :
                  ChunkLoopShrinks(r, TOTAL_RECEIPT_WIDTH - (SNO_COL_WIDTH + 1))
        /\ xmlData.company.name # <<>> =>
              SameCharacters(CompanyNameLinesOut, xmlData.company.name)
        /\ xmlData.narration # <<>> =>
              SameCharacters(NarrationLinesOut, xmlData.narration)
        /\ xmlData.termsAndConditions # <<>> =>
              SameCharacters(TermsLinesOut, xmlData.termsAndConditions)
        /\ \A k \in 1..Len(xmlData.items) :
              Len(xmlData.items[k].name) > ITEM_NAME_COL_WIDTH =>
                  SameCharacters(ContinuationLinesOut(xmlData.items[k].sNo),
                                 substringFrom(xmlData.items[k].name, ITEM_NAME_COL_WIDTH))

\* The name 'SUPERLONG COMPANY NAME PRIVATE LIMITED' was printed on four
\* lines
C27_Witness ==
    /\ Generated
    /\ Len(xmlData.company.name) = 38
    /\ Len(CompanyNameLinesOut) = 4
    /\ Len(companyNameRest(xmlData.company.name)) = 28

-----------------------------------------------------------------------------
(* The heading beside the selection of the items, checked under SpecParse *)

\* The items are those of the out-going list, or of the all-inventory list
\* when the out-going list is empty
OutgoingFirst ==
    BareItems = parseItemsFromList(IF OutEntries = <<>> THEN AllEntries ELSE OutEntries)

\* The items are those of the all-inventory list, or of the out-going list
\* when the all-inventory list is empty
AllInventoryFirst ==
    BareItems = parseItemsFromList(IF AllEntries = <<>> THEN OutEntries ELSE AllEntries)

\* The items are those of the out-going list
OutgoingOnly == BareItems = parseItemsFromList(OutEntries)

\* The heading fits the way the items were selected
HeadingFitsSelection ==
    /\ result.heading = <<77, 65, 84, 69, 82, 73, 65, 76, 32, 67, 72, 65, 76, 76, 65, 78>> => OutgoingFirst
    /\ result.heading \in {<<83, 65, 76, 69, 83, 32, 79, 82, 68, 69, 82>>, <<83, 65, 76, 69, 83, 32, 73, 78, 86, 79, 73, 67, 69>>} => AllInventoryFirst
    /\ result.heading = <<83, 84, 79, 67, 75, 32, 74, 79, 85, 82, 78, 65, 76>> => OutgoingOnly

\* C28: the heading and the selection of the items agree on the kind of
\* voucher, for every voucher type and object view: with the heading
\* 'MATERIAL CHALLAN' the items were selected out-going list first, with
\* 'SALES ORDER' or 'SALES INVOICE' all-inventory list first, and with
\* 'STOCK JOURNAL' they are the out-going list only.
C28_HeadingAgreesWithSelection == Returned => HeadingFitsSelection

\* The voucher type names one kind of voucher at most, and the object view
\* is not the consumption view
OneKindOfVoucher ==
    /\ ~includes(ViewUpper, <<67, 79, 78, 83, 85, 77, 80, 84, 73, 79, 78, 32, 86, 79, 85, 67, 72, 69, 82, 32, 86, 73, 69, 87>>)
    /\ Cardinality({k \in {<<83, 84, 79, 67, 75, 32, 74, 79, 85, 82, 78, 65, 76>>, <<83, 65, 76, 69, 83>>} : includes(TypeUpper, k)}
                   \cup {k \in {<<77, 65, 84, 69, 82, 73, 65, 76, 32, 79, 85, 84>>} :
                            includes(TypeUpper, k) \/ includes(TypeUpper, <<68, 69, 76, 73, 86, 69, 82, 89>>)}) <= 1

\* The heading and the selection agree when the type names one kind of
\* voucher and the object view is not the consumption view
C28_AgreeForOneKind == (Returned /\ OneKindOfVoucher) => HeadingFitsSelection

\* A voucher of type 'Sales' in the consumption view, with entries in both
\* lists, got the heading 'SALES INVOICE' and the out-going entries
C28_SalesInConsumptionView ==
    /\ Returned
    /\ TypeUpper = <<83, 65, 76, 69, 83>>
    /\ RuleJournal
    /\ AllEntries # <<>> /\ OutEntries # <<>>
    /\ result.heading = <<83, 65, 76, 69, 83, 32, 73, 78, 86, 79, 73, 67, 69>>
    /\ OutgoingOnly /\ ~AllInventoryFirst

\* The status of the item numbered id in a queue, "removed" when the queue
\* does not hold it
StatusIn(queue, id) ==
    IF \E k \in 1..Len(queue) : queue[k].id = id
    THEN queue[CHOOSE k \in 1..Len(queue) : queue[k].id = id].status
    ELSE "removed"

\* The moves of a status the claim allows
AllowedMoves ==
    {<<"pending", "printing">>, <<"printing", "completed">>,
     <<"completed", "removed">>, <<"printing", "pending">>}

\* A step moves the status of each item along AllowedMoves or not at all,
\* and from printing back to pending only as the run fails
StatusMovesForward ==
    \A id \in 1..MaxQueue :
        LET old == StatusIn(printQueue, id)
            new == StatusIn(printQueue', id)
        IN  /\ old # new => <<old, new>> \in AllowedMoves
            /\ (old = "printing" /\ new = "pending") =>
                  runs[1].pc # "failed" /\ runs'[1].pc = "failed"

\* No run is in progress and one has finished
RunFinished == runs # <<>> /\ \A r \in 1..Len(runs) : Finished(runs[r])

-----------------------------------------------------------------------------
(* Printing triggered again during a run, checked under SpecReprint *)

\* How many times the call r has transferred the item numbered id
TransfersOf(r, id) ==
    Cardinality({j \in 1..Len(transfers) : transfers[j] = <<r, id>>})

\* C30: when print is triggered again while a run is in progress, no item
\* is picked up by both runs, and no document is transferred more than
\* copyCount times in total.
C30_NoItemPrintedByOverlappingRuns ==
    \A r2 \in 1..Len(runs) : \A r1 \in runs[r2].during : \A id \in 1..MaxQueue :
        /\ ~(TransfersOf(r1, id) > 0 /\ TransfersOf(r2, id) > 0)
        /\ TransfersOf(r1, id) + TransfersOf(r2, id) <= copyCount.v \div 1000

\* Print was triggered again while the first of two items was printing and
\* the second was pending; both calls ended with success and the second
\* item was transferred by both
C30_SecondItemPrintedTwice ==
    /\ Len(runs) = 2
    /\ runs[1].pc = "done" /\ runs[2].pc = "done"
    /\ StatusIn(runs[2].queue, 1) = "printing"
    /\ StatusIn(runs[2].queue, 2) = "pending"
    /\ copyCount = Num(1000)
    /\ TransfersOf(1, 1) = 1 /\ TransfersOf(2, 1) = 0
    /\ TransfersOf(1, 2) = 1 /\ TransfersOf(2, 2) = 1

=============================================================================
